---- MODULE Spec2Model ----
(***************************************************************************)
(* Security-gated request pipeline of the MCP SQL assistant:               *)
(* securityFilter.js (validators), nlToSqlConverter.js (translation        *)
(* pipeline), requestProcessor.js (turn state machine), toolRegistry.js    *)
(* and the HTTP routes of mcpServer.js.                                    *)
(*                                                                         *)
(* Text is modelled as a sequence of one-character strings, and the        *)
(* regular expressions of the source as syntax trees interpreted by        *)
(* Ends/Test below, so that case folding, word boundaries, the newline     *)
(* exclusion of "." and greedy/lazy captures behave as in JavaScript.      *)
(***************************************************************************)
EXTENDS Integers, Sequences, FiniteSets, TLC

(***************************************************************************)
(* Characters                                                              *)
(***************************************************************************)
UpperLetters == <<"A","B","C","D","E","F","G","H","I","J","K","L","M",
                  "N","O","P","Q","R","S","T","U","V","W","X","Y","Z">>
LowerLetters == <<"a","b","c","d","e","f","g","h","i","j","k","l","m",
                  "n","o","p","q","r","s","t","u","v","w","x","y","z">>
Digits == {"0","1","2","3","4","5","6","7","8","9"}
UpperSet == {UpperLetters[k] : k \in DOMAIN UpperLetters}
LowerSet == {LowerLetters[k] : k \in DOMAIN LowerLetters}
\* \w of a JavaScript RegExp
WordChars == UpperSet \cup LowerSet \cup Digits \cup {"_"}
\* \s of a JavaScript RegExp (the members that occur in the modelled texts)
SpaceChars == {" ", "\n", "\t"}
\* line terminators, which "." does not match
LineTerminators == {"\n"}

LowerOf == [c \in UpperSet |-> LowerLetters[CHOOSE k \in DOMAIN UpperLetters : UpperLetters[k] = c]]
UpperOf == [c \in LowerSet |-> UpperLetters[CHOOSE k \in DOMAIN LowerLetters : LowerLetters[k] = c]]
\* String.prototype.toLowerCase / toUpperCase, one character at a time
toLowerChar(c) == IF c \in UpperSet THEN LowerOf[c] ELSE c
toUpperChar(c) == IF c \in LowerSet THEN UpperOf[c] ELSE c
toLowerCase(s) == [k \in DOMAIN s |-> toLowerChar(s[k])]
toUpperCase(s) == [k \in DOMAIN s |-> toUpperChar(s[k])]

\* s.substring(i-1, j-1): the characters at positions i..j-1 (1-based)
Slice(s, i, j) == [k \in 1..(j - i) |-> s[i + k - 1]]

\* does the literal lit stand at position i of s (case-sensitively)
LitAt(lit, s, i) ==
  /\ i + Len(lit) - 1 <= Len(s)
  /\ \A k \in DOMAIN lit : s[i + k - 1] = lit[k]

\* String.prototype.includes
includes(s, lit) == \E i \in 1..(Len(s) - Len(lit) + 1) : LitAt(lit, s, i)

(***************************************************************************)
(* Regular expressions.  A pattern is a tree:                              *)
(*   Lit(w)       the characters of w                                      *)
(*   Rep(cs, m)   at least m characters of the class cs (greedy or lazy)   *)
(*   Dot(m)       at least m characters other than a line terminator       *)
(*   Opt(r)       r?                                                       *)
(*   Cat(rs)      concatenation        Alt(rs)   alternation               *)
(*   WordB        \b                   Eol       $                         *)
(* Under the i flag (ci = TRUE) the pattern is written in lower case and   *)
(* each input character is folded before it is compared.                   *)
(***************************************************************************)
Lit(w) == [t |-> "lit", w |-> w]
Rep(cs, m) == [t |-> "rep", neg |-> FALSE, cs |-> cs, min |-> m]
Dot(m) == [t |-> "rep", neg |-> TRUE, cs |-> LineTerminators, min |-> m]
Opt(r) == [t |-> "opt", r |-> r]
Cat(rs) == [t |-> "cat", rs |-> rs]
Alt(rs) == [t |-> "alt", rs |-> rs]
WordB == [t |-> "wordb"]
Eol == [t |-> "eol"]

Fold(c, ci) == IF ci THEN toLowerChar(c) ELSE c

InClass(re, c, ci) == (Fold(c, ci) \in re.cs) # re.neg

\* first position at or after i whose character is outside the class
RECURSIVE RunEnd(_, _, _, _)
RunEnd(re, s, i, ci) ==
  IF i > Len(s) \/ ~InClass(re, s[i], ci) THEN i ELSE RunEnd(re, s, i + 1, ci)

IsWordAt(s, i) == i >= 1 /\ i <= Len(s) /\ s[i] \in WordChars

\* Ends(re, s, i, ci): the positions at which a match of re that starts at
\* position i of s can end (the position of the next unread character)
RECURSIVE Ends(_, _, _, _)
RECURSIVE CatEnds(_, _, _, _, _)
Ends(re, s, i, ci) ==
  CASE re.t = "lit" ->
         IF /\ i + Len(re.w) - 1 <= Len(s)
            /\ \A k \in DOMAIN re.w : Fold(s[i + k - 1], ci) = re.w[k]
         THEN {i + Len(re.w)} ELSE {}
    [] re.t = "rep" -> (i + re.min)..RunEnd(re, s, i, ci)
    [] re.t = "opt" -> {i} \cup Ends(re.r, s, i, ci)
    [] re.t = "cat" -> CatEnds(re.rs, 1, s, {i}, ci)
    [] re.t = "alt" -> UNION {Ends(re.rs[k], s, i, ci) : k \in DOMAIN re.rs}
    [] re.t = "wordb" -> IF IsWordAt(s, i - 1) # IsWordAt(s, i) THEN {i} ELSE {}
    [] re.t = "eol" -> IF i = Len(s) + 1 THEN {i} ELSE {}
CatEnds(rs, k, s, from, ci) ==
  IF k > Len(rs) \/ from = {} THEN from
  ELSE CatEnds(rs, k + 1, s, UNION {Ends(rs[k], s, p, ci) : p \in from}, ci)

MatchesAt(re, s, i, ci) == Ends(re, s, i, ci) # {}

\* RegExp.prototype.test
Test(re, s, ci) == \E i \in 1..(Len(s) + 1) : MatchesAt(re, s, i, ci)

\* start of the leftmost match at or after position from (0: none)
FirstStart(re, s, from, ci) ==
  LET starts == {i \in from..(Len(s) + 1) : MatchesAt(re, s, i, ci)}
  IN IF starts = {} THEN 0 ELSE CHOOSE i \in starts : \A j \in starts : i <= j

SetMax(S) == CHOOSE x \in S : \A y \in S : y <= x
SetMin(S) == CHOOSE x \in S : \A y \in S : x <= y


(***************************************************************************)
(* Array and string helpers of the JavaScript runtime                      *)
(***************************************************************************)
\* Array.prototype.filter over the indices of a list, keeping list order
RECURSIVE Filter(_, _, _)
Filter(list, keep, k) ==
  IF k > Len(list) THEN <<>>
  ELSE (IF k \in keep THEN <<list[k]>> ELSE <<>>) \o Filter(list, keep, k + 1)

\* String.prototype.trim
RECURSIVE TrimLeft(_)
TrimLeft(s) == IF s # <<>> /\ s[1] \in SpaceChars THEN TrimLeft(Tail(s)) ELSE s
RECURSIVE TrimRight(_)
TrimRight(s) ==
  IF s # <<>> /\ s[Len(s)] \in SpaceChars THEN TrimRight(SubSeq(s, 1, Len(s) - 1)) ELSE s
trim(s) == TrimRight(TrimLeft(s))

\* String.prototype.split(',') : the pieces between the separators
RECURSIVE SplitFrom(_, _, _, _)
SplitFrom(s, sep, i, start) ==
  IF i > Len(s) THEN <<Slice(s, start, Len(s) + 1)>>
  ELSE IF s[i] = sep THEN <<Slice(s, start, i)>> \o SplitFrom(s, sep, i + 1, i + 1)
  ELSE SplitFrom(s, sep, i + 1, start)
split(s, sep) == SplitFrom(s, sep, 1, 1)

(***************************************************************************)
(* Pattern library (securityFilter.js)                                     *)
(***************************************************************************)
\* each operation with its name as reported and its letters folded for the
\* case-insensitive RegExp built from it
DANGEROUS_OPERATIONS == <<
  [name |-> "DROP", w |-> <<"d","r","o","p">>], [name |-> "DELETE", w |-> <<"d","e","l","e","t","e">>],
  [name |-> "TRUNCATE", w |-> <<"t","r","u","n","c","a","t","e">>], [name |-> "UPDATE", w |-> <<"u","p","d","a","t","e">>],
  [name |-> "INSERT", w |-> <<"i","n","s","e","r","t">>], [name |-> "ALTER", w |-> <<"a","l","t","e","r">>],
  [name |-> "GRANT", w |-> <<"g","r","a","n","t">>], [name |-> "REVOKE", w |-> <<"r","e","v","o","k","e">>],
  [name |-> "EXECUTE", w |-> <<"e","x","e","c","u","t","e">>], [name |-> "EXEC", w |-> <<"e","x","e","c">>],
  [name |-> "SYSTEM", w |-> <<"s","y","s","t","e","m">>], [name |-> "INTO OUTFILE", w |-> <<"i","n","t","o"," ","o","u","t","f","i","l","e">>],
  [name |-> "INTO DUMPFILE", w |-> <<"i","n","t","o"," ","d","u","m","p","f","i","l","e">>], [name |-> "LOAD_FILE", w |-> <<"l","o","a","d","_","f","i","l","e">>],
  [name |-> "BENCHMARK", w |-> <<"b","e","n","c","h","m","a","r","k">>], [name |-> "SLEEP", w |-> <<"s","l","e","e","p">>],
  [name |-> "XP_CMDSHELL", w |-> <<"x","p","_","c","m","d","s","h","e","l","l">>], [name |-> "SP_EXECUTE", w |-> <<"s","p","_","e","x","e","c","u","t","e">>],
  [name |-> "INFORMATION_SCHEMA", w |-> <<"i","n","f","o","r","m","a","t","i","o","n","_","s","c","h","e","m","a">>] >>

\* new RegExp(`\\b${op}\\b`, 'i')
WholeWord(w) == Cat(<<WordB, Lit(w), WordB>>)

\* src names the pattern in the verdict's reason (the pattern text, without
\* the escaping backslashes); re is the RegExp compiled from it with flag i
INJECTION_PATTERNS == <<
  [src |-> ";.*--", re |-> Cat(<<Lit(<<";">>), Dot(0), Lit(<<"-","-">>)>>)],
  [src |-> ";.*#", re |-> Cat(<<Lit(<<";">>), Dot(0), Lit(<<"#">>)>>)],
  [src |-> "'.*--", re |-> Cat(<<Lit(<<"'">>), Dot(0), Lit(<<"-","-">>)>>)],
  [src |-> "'.*OR.*=", re |-> Cat(<<Lit(<<"'">>), Dot(0), Lit(<<"o","r">>), Dot(0), Lit(<<"=">>)>>)],
  [src |-> "'.*OR.*'.*'.*=",
   re |-> Cat(<<Lit(<<"'">>), Dot(0), Lit(<<"o","r">>), Dot(0), Lit(<<"'">>), Dot(0), Lit(<<"'">>), Dot(0), Lit(<<"=">>)>>)],
  [src |-> "UNION.*SELECT", re |-> Cat(<<Lit(<<"u","n","i","o","n">>), Dot(0), Lit(<<"s","e","l","e","c","t">>)>>)],
  [src |-> "UNION.*ALL.*SELECT",
   re |-> Cat(<<Lit(<<"u","n","i","o","n">>), Dot(0), Lit(<<"a","l","l">>), Dot(0), Lit(<<"s","e","l","e","c","t">>)>>)],
  [src |-> "/[*].*[*]/", re |-> Cat(<<Lit(<<"/","*">>), Dot(0), Lit(<<"*","/">>)>>)],
  [src |-> "--", re |-> Lit(<<"-","-">>)],
  [src |-> "1=1", re |-> Lit(<<"1","=","1">>)],
  [src |-> "1 ?= ?1", re |-> Cat(<<Lit(<<"1">>), Opt(Lit(<<" ">>)), Lit(<<"=">>), Opt(Lit(<<" ">>)), Lit(<<"1">>)>>)],
  [src |-> "DROP.*TABLE", re |-> Cat(<<Lit(<<"d","r","o","p">>), Dot(0), Lit(<<"t","a","b","l","e">>)>>)],
  [src |-> "DELETE.*FROM", re |-> Cat(<<Lit(<<"d","e","l","e","t","e">>), Dot(0), Lit(<<"f","r","o","m">>)>>)],
  [src |-> "INSERT.*INTO", re |-> Cat(<<Lit(<<"i","n","s","e","r","t">>), Dot(0), Lit(<<"i","n","t","o">>)>>)],
  [src |-> "CAST(.*)", re |-> Cat(<<Lit(<<"c","a","s","t","(">>), Dot(0), Lit(<<")">>)>>)],
  [src |-> "CONVERT(.*)", re |-> Cat(<<Lit(<<"c","o","n","v","e","r","t","(">>), Dot(0), Lit(<<")">>)>>)] >>

SENSITIVE_KEYWORDS == <<
  [name |-> "password", w |-> <<"p","a","s","s","w","o","r","d">>], [name |-> "passwd", w |-> <<"p","a","s","s","w","d">>],
  [name |-> "pwd", w |-> <<"p","w","d">>], [name |-> "hash", w |-> <<"h","a","s","h">>],
  [name |-> "salt", w |-> <<"s","a","l","t">>], [name |-> "credit", w |-> <<"c","r","e","d","i","t">>],
  [name |-> "card", w |-> <<"c","a","r","d">>], [name |-> "ssn", w |-> <<"s","s","n">>],
  [name |-> "social security", w |-> <<"s","o","c","i","a","l"," ","s","e","c","u","r","i","t","y">>], [name |-> "admin", w |-> <<"a","d","m","i","n">>],
  [name |-> "root", w |-> <<"r","o","o","t">>], [name |-> "credentials", w |-> <<"c","r","e","d","e","n","t","i","a","l","s">>],
  [name |-> "secret", w |-> <<"s","e","c","r","e","t">>], [name |-> "token", w |-> <<"t","o","k","e","n">>],
  [name |-> "apikey", w |-> <<"a","p","i","k","e","y">>], [name |-> "api key", w |-> <<"a","p","i"," ","k","e","y">>],
  [name |-> "private", w |-> <<"p","r","i","v","a","t","e">>], [name |-> "exploit", w |-> <<"e","x","p","l","o","i","t">>],
  [name |-> "hack", w |-> <<"h","a","c","k">>], [name |-> "vulnerability", w |-> <<"v","u","l","n","e","r","a","b","i","l","i","t","y">>],
  [name |-> "bypass", w |-> <<"b","y","p","a","s","s">>] >>

(***************************************************************************)
(* validateNaturalLanguageInput (securityFilter.js)                        *)
(***************************************************************************)
\* /[a-z]+ [a-z]+;/  (no i flag)
BenignSemicolonShape ==
  Cat(<<Rep(LowerSet, 1), Lit(<<" ">>), Rep(LowerSet, 1), Lit(<<";">>)>>)

\* /didn['']t delete/ || /not delete/ || /never delete/  (no i flag)
NegatedDelete(input) ==
  \/ Test(Lit(<<"d","i","d","n","'","t"," ","d","e","l","e","t","e">>), input, FALSE)
  \/ Test(Lit(<<"n","o","t"," ","d","e","l","e","t","e">>), input, FALSE)
  \/ Test(Lit(<<"n","e","v","e","r"," ","d","e","l","e","t","e">>), input, FALSE)

\* the legitimatePatterns of validateNaturalLanguageInput, all with flag i
InputLegitimatePatterns == <<
  Cat(<<Lit(<<"s","h","o","w"," ","m","e"," ">>), Dot(0), Lit(<<" ","p","a","s","s","w","o","r","d">>)>>),
  Cat(<<Lit(<<"u","s","e","r">>), Opt(Lit(<<"s">>)), Lit(<<" ","w","h","o"," ">>), Dot(0), Lit(<<" ","p","a","s","s","w","o","r","d">>)>>),
  Cat(<<Lit(<<"w","h","e","n"," ","w","a","s"," ">>), Dot(0), Lit(<<" ","p","a","s","s","w","o","r","d">>)>>),
  Cat(<<Lit(<<"l","i","s","t"," ">>), Dot(0), Lit(<<" ","p","a","s","s","w","o","r","d">>)>>),
  Cat(<<Lit(<<"h","o","w"," ","m","a","n","y"," ">>), Dot(0), Lit(<<" ","p","a","s","s","w","o","r","d">>)>>),
  Cat(<<Lit(<<"c","o","u","n","t"," ">>), Dot(0), Lit(<<" ","p","a","s","s","w","o","r","d">>)>>) >>

\* indices of the injection patterns that match the input
InjectionHits(input) ==
  {k \in DOMAIN INJECTION_PATTERNS : Test(INJECTION_PATTERNS[k].re, input, TRUE)}

\* variant of DangerousHits in which a negated delete excuses every
\* operation
DangerousHitsExcusingAll(input) ==
  {k \in DOMAIN DANGEROUS_OPERATIONS :
     /\ Test(WholeWord(DANGEROUS_OPERATIONS[k].w), input, TRUE)
     /\ ~NegatedDelete(input)}

\* indices of the dangerous operations at which the loop returns: the word
\* occurs and the negated-DELETE exception does not apply
DangerousHits(input) ==
  {k \in DOMAIN DANGEROUS_OPERATIONS :
     /\ Test(WholeWord(DANGEROUS_OPERATIONS[k].w), input, TRUE)
     /\ ~(DANGEROUS_OPERATIONS[k].name = "DELETE" /\ NegatedDelete(input))}

\* variant of SensitiveMatches that looks for the keywords in the input as
\* written
SensitiveMatchesAsWritten(input) ==
  LET hits == {k \in DOMAIN SENSITIVE_KEYWORDS : includes(input, SENSITIVE_KEYWORDS[k].w)}
  IN Filter([k \in DOMAIN SENSITIVE_KEYWORDS |-> SENSITIVE_KEYWORDS[k].name], hits, 1)

\* sensitiveMatches: the keywords found in lowerInput, in list order
SensitiveMatches(input) ==
  LET lowerInput == toLowerCase(input)
      hits == {k \in DOMAIN SENSITIVE_KEYWORDS : includes(lowerInput, SENSITIVE_KEYWORDS[k].w)}
  IN Filter([k \in DOMAIN SENSITIVE_KEYWORDS |-> SENSITIVE_KEYWORDS[k].name], hits, 1)

\* variant of EmptyInputVerdict that lets an empty input pass
EmptyInputAccepted == [isValid |-> TRUE]

\* what validateNaturalLanguageInput returns for an input that is empty
EmptyInputVerdict == [isValid |-> FALSE, reason |-> <<"Empty input">>, severity |-> "low"]

validateNaturalLanguageInput(input) ==
  IF input = <<>> THEN EmptyInputVerdict
  ELSE LET inj == InjectionHits(input) IN
  IF inj # {} THEN
    [isValid |-> FALSE,
     reason |-> <<"Potential SQL injection detected: matches pattern", INJECTION_PATTERNS[SetMin(inj)].src>>,
     severity |-> "high"]
  ELSE IF includes(input, <<";">>) /\ ~Test(BenignSemicolonShape, input, FALSE) THEN
    [isValid |-> FALSE, reason |-> <<"Multiple SQL statements are not allowed">>, severity |-> "high"]
  ELSE LET dang == DangerousHits(input) IN
  IF dang # {} THEN
    [isValid |-> FALSE,
     reason |-> <<"Query contains dangerous operation:", DANGEROUS_OPERATIONS[SetMin(dang)].name>>,
     severity |-> "high"]
  ELSE LET sensitiveMatches == SensitiveMatches(input) IN
  IF Len(sensitiveMatches) > 0 THEN
    LET potentiallyLegitimate ==
          \E k \in DOMAIN InputLegitimatePatterns : Test(InputLegitimatePatterns[k], input, TRUE)
    IN IF Len(sensitiveMatches) = 1 /\ potentiallyLegitimate THEN
         [isValid |-> TRUE,
          warning |-> <<"Query contains sensitive keyword:", sensitiveMatches[1], "but appears to be legitimate">>,
          severity |-> "low"]
       ELSE
         [isValid |-> FALSE,
          reason |-> <<"Query contains sensitive keywords:">> \o sensitiveMatches,
          severity |-> IF Len(sensitiveMatches) > 1 THEN "high" ELSE "medium"]
  ELSE [isValid |-> TRUE]

(***************************************************************************)
(* validateSql and extractFields (securityFilter.js)                       *)
(***************************************************************************)
\* /UNION\s+(?:ALL\s+)?SELECT/i
UnionSelect ==
  Cat(<<Lit(<<"u","n","i","o","n">>), Rep(SpaceChars, 1), Opt(Cat(<<Lit(<<"a","l","l">>), Rep(SpaceChars, 1)>>)), Lit(<<"s","e","l","e","c","t">>)>>)

\* /SELECT\s+(.+?)\s+FROM/i
SelectFrom ==
  Cat(<<Lit(<<"s","e","l","e","c","t">>), Rep(SpaceChars, 1), Dot(1), Rep(SpaceChars, 1), Lit(<<"f","r","o","m">>)>>)
\* the tail \s+FROM that must follow the captured group
SpaceFrom == Cat(<<Rep(SpaceChars, 1), Lit(<<"f","r","o","m">>)>>)

\* /SELECT.*FROM.*INFORMATION_SCHEMA\.TABLES/i and ...\.COLUMNS/i
SchemaTables ==
  Cat(<<Lit(<<"s","e","l","e","c","t">>), Dot(0), Lit(<<"f","r","o","m">>), Dot(0), Lit(<<"i","n","f","o","r","m","a","t","i","o","n","_","s","c","h","e","m","a",".","t","a","b","l","e","s">>)>>)
SchemaColumns ==
  Cat(<<Lit(<<"s","e","l","e","c","t">>), Dot(0), Lit(<<"f","r","o","m">>), Dot(0), Lit(<<"i","n","f","o","r","m","a","t","i","o","n","_","s","c","h","e","m","a",".","c","o","l","u","m","n","s">>)>>)

\* selectStatement.match(/SELECT\s+(.+?)\s+FROM/i)[1]: at the leftmost match,
\* \s+ is greedy (the longest run of white space for which the rest can
\* match) and (.+?) is lazy (the shortest group after which \s+FROM follows)
SelectFromCapture(s) ==
  LET i == FirstStart(SelectFrom, s, 1, TRUE)
      ws == i + Len(<<"s","e","l","e","c","t">>)
      groupEnds(c) == {j \in (c + 1)..RunEnd(Dot(1), s, c, TRUE) : MatchesAt(SpaceFrom, s, j, TRUE)}
      groupStarts == {c \in (ws + 1)..RunEnd(Rep(SpaceChars, 1), s, ws, TRUE) : groupEnds(c) # {}}
      c == SetMax(groupStarts)
  IN Slice(s, c, SetMin(groupEnds(c)))

extractFields(selectStatement) ==
  IF FirstStart(SelectFrom, selectStatement, 1, TRUE) = 0 THEN <<>>
  ELSE LET fields == split(SelectFromCapture(selectStatement), ",")
       IN [k \in DOMAIN fields |-> trim(fields[k])]

\* sql.split(/UNION\s+(?:ALL\s+)?SELECT/i): the text before the first match
\* and the text between the first match and the second (or the end)
UnionParts(sql) ==
  LET m1 == FirstStart(UnionSelect, sql, 1, TRUE)
      e1 == SetMax(Ends(UnionSelect, sql, m1, TRUE))
      m2 == FirstStart(UnionSelect, sql, e1, TRUE)
  IN <<Slice(sql, 1, m1), Slice(sql, e1, IF m2 = 0 THEN Len(sql) + 1 ELSE m2)>>

\* variant of SqlDangerousHits that looks for the upper-case words in sql
\* as written, without folding case
SqlDangerousHitsAsWritten(sql) ==
  {k \in DOMAIN DANGEROUS_OPERATIONS :
     Test(WholeWord(toUpperCase(DANGEROUS_OPERATIONS[k].w)), sql, FALSE)}

\* indices of the dangerous operations found as whole words in upperSql
SqlDangerousHits(sql) ==
  LET upperSql == toUpperCase(sql)
  IN {k \in DOMAIN DANGEROUS_OPERATIONS : Test(WholeWord(DANGEROUS_OPERATIONS[k].w), upperSql, TRUE)}

\* /;\s*$/
TrailingSemicolon == Cat(<<Lit(<<";">>), Rep(SpaceChars, 0), Eol>>)

validateSql(sql) ==
  IF sql = <<>> THEN
    [isValid |-> FALSE, reason |-> <<"Empty SQL query">>, severity |-> "low"]
  ELSE LET dang == SqlDangerousHits(sql) IN
  IF dang # {} THEN
    LET op == DANGEROUS_OPERATIONS[SetMin(dang)].name
    IN IF op \in {"UPDATE", "INSERT", "DELETE"} THEN
         [isValid |-> FALSE, reason |-> <<"SQL contains data modification command:", op>>,
          severity |-> "medium", isDataModification |-> TRUE]
       ELSE
         [isValid |-> FALSE, reason |-> <<"SQL contains forbidden command:", op>>, severity |-> "high"]
  ELSE IF includes(sql, <<";">>) /\ ~Test(TrailingSemicolon, sql, FALSE) THEN
    [isValid |-> FALSE, reason |-> <<"Multiple SQL statements are not allowed">>, severity |-> "high"]
  ELSE IF /\ Test(UnionSelect, sql, TRUE)
          /\ Len(extractFields(UnionParts(sql)[1])) # Len(extractFields(UnionParts(sql)[2])) THEN
    [isValid |-> FALSE, reason |-> <<"Suspicious UNION SELECT with different field counts">>,
     severity |-> "high"]
  ELSE IF Test(SchemaTables, sql, TRUE) \/ Test(SchemaColumns, sql, TRUE) THEN
    [isValid |-> TRUE, warning |-> <<"Query accesses database schema information">>, severity |-> "low"]
  ELSE [isValid |-> TRUE]

(***************************************************************************)
(* assessSensitiveDataRequest and isSchemaQuery (securityFilter.js)        *)
(***************************************************************************)
\* sensitivePatterns, all with flag i
SensitivePatterns == <<
  Lit(<<"p","a","s","s","w","o","r","d">>),
  Cat(<<Lit(<<"c","r","e","d","i","t">>), Dot(1), Lit(<<"c","a","r","d">>)>>),
  Lit(<<"s","s","n">>),
  Lit(<<"s","o","c","i","a","l"," ","s","e","c","u","r","i","t","y">>),
  Cat(<<Lit(<<"u","s","e","r">>), Dot(1), Lit(<<"a","d","m","i","n">>)>>),
  Cat(<<Lit(<<"a","d","m","i","n">>), Dot(1), Lit(<<"u","s","e","r">>)>>) >>

\* legitimatePatterns of assessSensitiveDataRequest, all with flag i
AssessLegitimatePatterns == <<
  Alt(<<Lit(<<"c","o","u","n","t">>), Lit(<<"n","u","m","b","e","r"," ","o","f">>), Lit(<<"h","o","w"," ","m","a","n","y">>)>>),
  Cat(<<Lit(<<"w","h","e","n">>), Dot(1), Alt(<<Lit(<<"c","h","a","n","g","e","d">>), Lit(<<"u","p","d","a","t","e","d">>), Lit(<<"m","o","d","i","f","i","e","d">>)>>)>>),
  Cat(<<Lit(<<"u","s","e","r">>), Opt(Lit(<<"s">>)), Dot(1), Lit(<<"c","h","a","n","g","e","d">>), Dot(1), Lit(<<"p","a","s","s","w","o","r","d">>)>>),
  Cat(<<Lit(<<"l","a","s","t">>), Dot(1), Lit(<<"p","a","s","s","w","o","r","d">>), Dot(1), Lit(<<"c","h","a","n","g","e">>)>>) >>

\* legitimatePatterns.some(pattern => pattern.test(query))
MatchesLegitimate(query) ==
  \E k \in DOMAIN AssessLegitimatePatterns : Test(AssessLegitimatePatterns[k], query, TRUE)

\* variant of assessSensitiveDataRequest that looks for the legitimacy
\* patterns in the SQL as well as in the query
assessByQueryOrSql(query, sql) ==
  IF query = <<>> \/ sql = <<>> THEN [isSensitive |-> FALSE]
  ELSE IF \E k \in DOMAIN SensitivePatterns :
            Test(SensitivePatterns[k], query, TRUE) \/ Test(SensitivePatterns[k], sql, TRUE) THEN
    IF MatchesLegitimate(query) \/ MatchesLegitimate(sql) THEN
      [isSensitive |-> TRUE, isLegitimate |-> TRUE,
       warning |-> <<"Query requests sensitive data but appears to be for legitimate statistical or audit purposes">>]
    ELSE
      [isSensitive |-> TRUE, isLegitimate |-> FALSE,
       reason |-> <<"Query appears to be requesting sensitive data directly">>]
  ELSE [isSensitive |-> FALSE]

assessSensitiveDataRequest(query, sql) ==
  IF query = <<>> \/ sql = <<>> THEN [isSensitive |-> FALSE]
  ELSE IF \E k \in DOMAIN SensitivePatterns :
            Test(SensitivePatterns[k], query, TRUE) \/ Test(SensitivePatterns[k], sql, TRUE) THEN
    IF MatchesLegitimate(query) THEN
      [isSensitive |-> TRUE, isLegitimate |-> TRUE,
       warning |-> <<"Query requests sensitive data but appears to be for legitimate statistical or audit purposes">>]
    ELSE
      [isSensitive |-> TRUE, isLegitimate |-> FALSE,
       reason |-> <<"Query appears to be requesting sensitive data directly">>]
  ELSE [isSensitive |-> FALSE]

\* schemaPatterns, all with flag i
SchemaPatterns == <<
  Lit(<<"d","a","t","a","b","a","s","e"," ","s","c","h","e","m","a">>), Lit(<<"t","a","b","l","e"," ","s","t","r","u","c","t","u","r","e">>), Lit(<<"d","a","t","a","b","a","s","e"," ","s","t","r","u","c","t","u","r","e">>),
  Cat(<<Lit(<<"s","h","o","w">>), Dot(1), Lit(<<"t","a","b","l","e","s">>)>>),
  Cat(<<Lit(<<"l","i","s","t">>), Dot(1), Lit(<<"t","a","b","l","e","s">>)>>),
  Cat(<<Lit(<<"d","e","s","c","r","i","b","e">>), Dot(1), Lit(<<"t","a","b","l","e">>)>>),
  Cat(<<Lit(<<"c","o","l","u","m","n">>), Dot(1), Lit(<<"i","n","f","o","r","m","a","t","i","o","n">>)>>) >>

isSchemaQuery(query) ==
  \E k \in DOMAIN SchemaPatterns : Test(SchemaPatterns[k], query, TRUE)

(***************************************************************************)
(* The requests of the model: the users, the message texts and tool calls  *)
(* clients send, and the answers of the translator and the executor.       *)
(***************************************************************************)
Users == {"u1"}

\* message texts a client sends
ChatTexts == {
  <<>>, <<"a","l","l"," ","u","s","e","r","s">>, <<"a","'",";"," ","D","R","O","P"," ","T","A","B","L","E"," ","t",";"," ","-","-">>, <<"x"," ","1","=","1">>, <<"d","e","l","e","t","e"," ","u","s","e","r","s">>, <<"a",";"," ","b">>,
  <<"u","s","e","r","s"," ","p","a","s","s","w","o","r","d","s">>, <<"a","d","m","i","n"," ","p","a","s","s","w","o","r","d">>, <<"h","o","w"," ","m","a","n","y"," ","u","s","e","r","s"," ","c","h","a","n","g","e","d"," ","p","a","s","s","w","o","r","d">>,
  <<"s","h","o","w"," ","t","a","b","l","e","s">>, <<"l","i","s","t"," ","a","d","m","i","n"," ","t","a","b","l","e","s">>, <<"s","h","o","w"," ","t","a","b","l","e","s","'",";"," ","-","-">>, <<"d","e","s","c","r","i","b","e"," ","t","a","b","l","e"," ","u","s","e","r","s">> }

\* SQL the translator answers with (<<>>: no sqlQuery)
SqlOutputs == {
  <<>>, <<"S","E","L","E","C","T"," ","a"," ","F","R","O","M"," ","t">>, <<"D","R","O","P"," ","T","A","B","L","E"," ","t">>, <<"U","P","D","A","T","E"," ","t"," ","S","E","T"," ","a","=","2">>, <<"S","E","L","E","C","T"," ","a"," ","F","R","O","M"," ","t",";"," ","S","E","L","E","C","T"," ","b"," ","F","R","O","M"," ","t">>,
  <<"S","E","L","E","C","T"," ","p","a","s","s","w","o","r","d"," ","F","R","O","M"," ","u","s","e","r","s">>, <<"S","E","L","E","C","T"," ","a",",","b"," ","F","R","O","M"," ","t"," ","U","N","I","O","N"," ","S","E","L","E","C","T"," ","x"," ","F","R","O","M"," ","y">> }

ParsedResults == {[sqlQuery |-> s, entities |-> <<"users">>, intent |-> "QUERY"] : s \in SqlOutputs}

RowCounts == {0, 2}
QueryResults == {[rowCount |-> n] : n \in RowCounts}

\* a tool call's parameters as the client sent them; given is FALSE when the
\* call carries no parameters at all (the property is undefined)
Parameters(query, sql) == [given |-> TRUE, query |-> query, sql |-> sql]
NoParameters == [given |-> FALSE, query |-> <<>>, sql |-> <<>>]

ToolCall(id, name, query, sql) ==
  [id |-> id, name |-> name, parameters |-> Parameters(query, sql)]
BareToolCall(id, name) == [id |-> id, name |-> name, parameters |-> NoParameters]

\* the tool_calls lists a client sends
ToolCallLists == {
  <<ToolCall("c1", "sql_executor", <<>>, <<"S","E","L","E","C","T"," ","a"," ","F","R","O","M"," ","t">>)>>,
  <<ToolCall("c1", "sql_executor", <<>>, <<"D","R","O","P"," ","T","A","B","L","E"," ","t">>)>>,
  <<ToolCall("c1", "sql_executor", <<>>, <<>>)>>,
  <<ToolCall("c1", "sql_executor", <<>>, <<"A","L","T","E","R"," ","T","A","B","L","E"," ","t">>)>>,
  <<ToolCall("c1", "sql_generator", <<"a","l","l"," ","u","s","e","r","s">>, <<>>), ToolCall("c2", "sql_executor", <<>>, <<"S","E","L","E","C","T"," ","a"," ","F","R","O","M"," ","t">>)>>,
  <<ToolCall("c1", "sql_generator", <<"x"," ","1","=","1">>, <<>>), ToolCall("c2", "no_such_tool", <<>>, <<>>)>>,
  <<ToolCall("c1", "sql_generator", <<>>, <<>>), ToolCall("c2", "workbench_export", <<>>, <<"D","R","O","P"," ","T","A","B","L","E"," ","t">>)>>,
  <<ToolCall("c1", "sql_executor", <<>>, <<"D","R","O","P"," ","T","A","B","L","E"," ","t">>), ToolCall("c2", "sql_executor", <<>>, <<"S","E","L","E","C","T"," ","a"," ","F","R","O","M"," ","t">>)>>,
  <<BareToolCall("c1", "sql_executor"), ToolCall("c2", "sql_executor", <<>>, <<"S","E","L","E","C","T"," ","a"," ","F","R","O","M"," ","t">>)>>,
  <<ToolCall("c1", "sql_executor", <<>>, <<"S","E","L","E","C","T"," ","a"," ","F","R","O","M"," ","t">>), BareToolCall("c2", "sql_generator")>>,
  <<BareToolCall("c1", "workbench_export"), ToolCall("c2", "sql_executor", <<>>, <<"S","E","L","E","C","T"," ","a"," ","F","R","O","M"," ","t">>)>> }

\* the calls a client posts to /api/v1/tools/:toolName
DirectCalls == UNION {{list[i] : i \in DOMAIN list} : list \in ToolCallLists}

Message(content, tool_calls) == [role |-> "user", content |-> content, tool_calls |-> tool_calls]

ChatMessages ==
  {Message(t, <<>>) : t \in ChatTexts} \cup {Message(<<>>, l) : l \in ToolCallLists}


(***************************************************************************)
(* processNaturalLanguage (nlToSqlConverter.js).  The function runs up to  *)
(* its await of the translator (pnlStart) and, once the translator has     *)
(* answered, from there to its return (pnlResume).  Each part yields the   *)
(* value returned, if any, and the calls it made, in call order.           *)
(***************************************************************************)
\* one call made on behalf of sub-operation who (0: the chat pipeline,
\* i: the i-th tool call of the turn)
Call(who, fn, arg, ok) == [who |-> who, fn |-> fn, arg |-> arg, ok |-> ok]

\* the object returned when a security stage blocks
SecurityBlocked(entities, type, severity, reason) ==
  [sqlQuery |-> <<>>, entities |-> entities, intent |-> "SECURITY_BLOCKED", error |-> reason,
   securityAlert |-> [type |-> type, severity |-> severity, details |-> reason]]

\* up to the await, given the verdict of validateNaturalLanguageInput(text)
pnlValidated(who, text, inputValidation) ==
  IF ~inputValidation.isValid THEN
    [returned |-> TRUE,
     value |-> SecurityBlocked(<<>>, "input_validation", inputValidation.severity, inputValidation.reason),
     calls |-> <<Call(who, "validateNaturalLanguageInput", text, FALSE)>>]
  ELSE
    [returned |-> FALSE,
     calls |-> <<Call(who, "validateNaturalLanguageInput", text, TRUE), Call(who, "sendMessage", text, TRUE)>>]

pnlStart(who, text) == pnlValidated(who, text, validateNaturalLanguageInput(text))

\* variant of pnlScreened in which the sensitivity assessment is made before
\* the SQL is validated
pnlScreenedAssessFirst(who, parsedResult, sqlValidation, sensitiveDataAssessment) ==
  LET sql == parsedResult.sqlQuery
      received == <<Call(who, "response", sql, TRUE)>>
  IN IF sql = <<>> THEN [value |-> parsedResult, calls |-> received]
     ELSE IF sensitiveDataAssessment.isSensitive /\ ~sensitiveDataAssessment.isLegitimate THEN
       [value |-> SecurityBlocked(parsedResult.entities, "sensitive_data_access",
                                  "high", sensitiveDataAssessment.reason),
        calls |-> received \o <<Call(who, "assessSensitiveDataRequest", sql, FALSE)>>]
     ELSE IF ~sqlValidation.isValid THEN
       [value |-> SecurityBlocked(parsedResult.entities, "sql_validation",
                                  sqlValidation.severity, sqlValidation.reason),
        calls |-> received \o <<Call(who, "assessSensitiveDataRequest", sql, TRUE),
                                 Call(who, "validateSql", sql, FALSE)>>]
     ELSE
       [value |-> parsedResult,
        calls |-> received \o <<Call(who, "assessSensitiveDataRequest", sql, TRUE),
                                 Call(who, "validateSql", sql, TRUE)>>]

\* variant of pnlScreened in which the assessment is made but does not block
pnlScreenedAdvisory(who, parsedResult, sqlValidation, sensitiveDataAssessment) ==
  LET sql == parsedResult.sqlQuery
      received == <<Call(who, "response", sql, TRUE)>>
  IN IF sql = <<>> THEN [value |-> parsedResult, calls |-> received]
     ELSE IF ~sqlValidation.isValid THEN
       [value |-> SecurityBlocked(parsedResult.entities, "sql_validation",
                                  sqlValidation.severity, sqlValidation.reason),
        calls |-> received \o <<Call(who, "validateSql", sql, FALSE)>>]
     ELSE
       [value |-> parsedResult,
        calls |-> received \o <<Call(who, "validateSql", sql, TRUE),
                                 Call(who, "assessSensitiveDataRequest", sql,
                                      ~(sensitiveDataAssessment.isSensitive
                                        /\ ~sensitiveDataAssessment.isLegitimate))>>]

\* from the translator's answer on, given the verdicts of validateSql and of
\* assessSensitiveDataRequest on the generated SQL (neither is called when
\* the answer carries no SQL, the second only when the first accepts)
pnlScreened(who, parsedResult, sqlValidation, sensitiveDataAssessment) ==
  LET sql == parsedResult.sqlQuery
      received == <<Call(who, "response", sql, TRUE)>>
  IN IF sql = <<>> THEN [value |-> parsedResult, calls |-> received]
     ELSE IF ~sqlValidation.isValid THEN
       [value |-> SecurityBlocked(parsedResult.entities, "sql_validation",
                                  sqlValidation.severity, sqlValidation.reason),
        calls |-> received \o <<Call(who, "validateSql", sql, FALSE)>>]
     ELSE IF sensitiveDataAssessment.isSensitive /\ ~sensitiveDataAssessment.isLegitimate THEN
       [value |-> SecurityBlocked(parsedResult.entities, "sensitive_data_access",
                                  "high", sensitiveDataAssessment.reason),
        calls |-> received \o <<Call(who, "validateSql", sql, TRUE),
                                 Call(who, "assessSensitiveDataRequest", sql, FALSE)>>]
     ELSE
       [value |-> parsedResult,
        calls |-> received \o <<Call(who, "validateSql", sql, TRUE),
                                 Call(who, "assessSensitiveDataRequest", sql, TRUE)>>]

pnlResume(who, text, parsedResult) ==
  pnlScreened(who, parsedResult, validateSql(parsedResult.sqlQuery),
              assessSensitiveDataRequest(text, parsedResult.sqlQuery))

\* the Error thrown when the translator call or the parsing of its answer fails
ConversionError == <<"Failed to convert natural language to SQL:", "translator error">>

(***************************************************************************)
(* requestProcessor.js                                                     *)
(***************************************************************************)
\* what verifyToolCallSafety returns on a validator's verdict
SafetyOf(validation) ==
  IF ~validation.isValid THEN [valid |-> FALSE, reason |-> validation.reason] ELSE [valid |-> TRUE]

\* the TypeError of reading a property of undefined parameters
TypeError(property) == <<"Cannot read properties of undefined, reading", property>>

\* what becomes of verifyToolCallSafety when reading parameters.query or
\* parameters.sql throws
SafetyThrew(property) == [valid |-> FALSE, reason |-> TypeError(property), threw |-> TRUE]
Threw(isSafe) == "threw" \in DOMAIN isSafe

verifyToolCallSafety(toolName, parameters) ==
  IF toolName = "sql_generator" /\ ~parameters.given THEN SafetyThrew("query")
  ELSE IF toolName = "sql_executor" /\ ~parameters.given THEN SafetyThrew("sql")
  ELSE IF toolName = "sql_generator" /\ parameters.query # <<>> THEN
    SafetyOf(validateNaturalLanguageInput(parameters.query))
  ELSE IF toolName = "sql_executor" /\ parameters.sql # <<>> THEN
    SafetyOf(validateSql(parameters.sql))
  ELSE [valid |-> TRUE]

\* the validator call verifyToolCallSafety makes for tool call who, isSafe
\* being what it returned
verifyCalls(who, toolName, parameters, isSafe) ==
  IF Threw(isSafe) THEN <<>>
  ELSE IF toolName = "sql_generator" /\ parameters.query # <<>> THEN
    <<Call(who, "validateNaturalLanguageInput", parameters.query, isSafe.valid)>>
  ELSE IF toolName = "sql_executor" /\ parameters.sql # <<>> THEN
    <<Call(who, "validateSql", parameters.sql, isSafe.valid)>>
  ELSE <<>>

securityBlockResponseMessage(securityAlert) ==
  CASE securityAlert.type = "input_validation" ->
         IF securityAlert.severity = "high"
         THEN "I cannot process this request as it appears to contain potentially harmful elements."
         ELSE "Your request contains patterns that might be unsafe."
    [] securityAlert.type = "sql_validation" ->
         "I've generated a SQL query based on your request, but it contains operations that could be harmful."
    [] securityAlert.type = "sensitive_data_access" ->
         "For security reasons, I cannot generate queries that directly access sensitive information."
    [] OTHER -> "I'm unable to process this request due to security concerns."

\* /table[s\s]+(\w+)/i on lowerMessage: the name captured at the leftmost
\* match, with [s\s]+ and \w+ greedy (<<>>: no match)
TableWord ==
  Cat(<<Lit(<<"t","a","b","l","e">>), Rep({"s"} \cup SpaceChars, 1), Rep(WordChars \ UpperSet, 1)>>)
TableNameMatch(lowerMessage) ==
  LET i == FirstStart(TableWord, lowerMessage, 1, TRUE)
      run == i + Len(<<"t","a","b","l","e">>)
      sep == Rep({"s"} \cup SpaceChars, 1)
      word == Rep(WordChars \ UpperSet, 1)
      starts == {c \in (run + 1)..RunEnd(sep, lowerMessage, run, TRUE) :
                   Ends(word, lowerMessage, c, TRUE) # {}}
      c == SetMax(starts)
  IN IF i = 0 THEN <<>> ELSE Slice(lowerMessage, c, RunEnd(word, lowerMessage, c, TRUE))

\* the three listings of generateSchemaQuery, as the template literals
\* spell them
ColumnsOfTableHead ==
  <<"\n"," "," "," "," "," "," ","S","E","L","E","C","T"," ","\n"," "," "," "," "," "," "," "," ","C","O","L","U","M","N","_","N","A","M","E",","," ","\n"," "," "," "," "," "," "," "," ","D","A","T","A","_","T","Y","P","E",","," ","\n"," "," "," "," "," "," "," "," ","I","S","_","N","U","L","L","A","B","L","E",","," ","\n"," "," "," "," "," "," "," "," ","C","O","L","U","M","N","_","K","E","Y","\n"," "," "," "," "," "," ","F","R","O","M"," ","\n"," "," "," "," "," "," "," "," ","I","N","F","O","R","M","A","T","I","O","N","_","S","C","H","E","M","A",".","C","O","L","U","M","N","S","\n"," "," "," "," "," "," ","W","H","E","R","E"," ","\n"," "," "," "," "," "," "," "," ","T","A","B","L","E","_","S","C","H","E","M","A"," ","="," ","D","A","T","A","B","A","S","E","(",")"," ","\n"," "," "," "," "," "," "," "," ","A","N","D"," ","T","A","B","L","E","_","N","A","M","E"," ","="," ","'">>
ColumnsOfTableTail ==
  <<"'","\n"," "," "," "," "," "," ","O","R","D","E","R"," ","B","Y"," ","\n"," "," "," "," "," "," "," "," ","O","R","D","I","N","A","L","_","P","O","S","I","T","I","O","N","\n"," "," "," "," ">>
ColumnsOfAllTables ==
  <<"\n"," "," "," "," "," "," ","S","E","L","E","C","T"," ","\n"," "," "," "," "," "," "," "," ","T","A","B","L","E","_","N","A","M","E",",","\n"," "," "," "," "," "," "," "," ","C","O","L","U","M","N","_","N","A","M","E",","," ","\n"," "," "," "," "," "," "," "," ","D","A","T","A","_","T","Y","P","E",","," ","\n"," "," "," "," "," "," "," "," ","I","S","_","N","U","L","L","A","B","L","E",","," ","\n"," "," "," "," "," "," "," "," ","C","O","L","U","M","N","_","K","E","Y","\n"," "," "," "," "," "," ","F","R","O","M"," ","\n"," "," "," "," "," "," "," "," ","I","N","F","O","R","M","A","T","I","O","N","_","S","C","H","E","M","A",".","C","O","L","U","M","N","S","\n"," "," "," "," "," "," ","W","H","E","R","E"," ","\n"," "," "," "," "," "," "," "," ","T","A","B","L","E","_","S","C","H","E","M","A"," ","="," ","D","A","T","A","B","A","S","E","(",")","\n"," "," "," "," "," "," ","O","R","D","E","R"," ","B","Y"," ","\n"," "," "," "," "," "," "," "," ","T","A","B","L","E","_","N","A","M","E",","," ","O","R","D","I","N","A","L","_","P","O","S","I","T","I","O","N","\n"," "," "," "," ">>
AllTables ==
  <<"\n"," "," "," "," "," "," ","S","E","L","E","C","T"," ","\n"," "," "," "," "," "," "," "," ","T","A","B","L","E","_","N","A","M","E",","," ","\n"," "," "," "," "," "," "," "," ","T","A","B","L","E","_","R","O","W","S",",","\n"," "," "," "," "," "," "," "," ","C","R","E","A","T","E","_","T","I","M","E",",","\n"," "," "," "," "," "," "," "," ","U","P","D","A","T","E","_","T","I","M","E",",","\n"," "," "," "," "," "," "," "," ","T","A","B","L","E","_","C","O","M","M","E","N","T","\n"," "," "," "," "," "," ","F","R","O","M"," ","\n"," "," "," "," "," "," "," "," ","I","N","F","O","R","M","A","T","I","O","N","_","S","C","H","E","M","A",".","T","A","B","L","E","S","\n"," "," "," "," "," "," ","W","H","E","R","E"," ","\n"," "," "," "," "," "," "," "," ","T","A","B","L","E","_","S","C","H","E","M","A"," ","="," ","D","A","T","A","B","A","S","E","(",")","\n"," "," "," "," "," "," ","O","R","D","E","R"," ","B","Y"," ","\n"," "," "," "," "," "," "," "," ","T","A","B","L","E","_","N","A","M","E","\n"," "," "," "," ">>

\* the introspection query built for a schema question: which listing, and
\* the table name spliced into it
generateSchemaQuery(userMessage) ==
  LET lowerMessage == toLowerCase(userMessage)
      tableName == TableNameMatch(lowerMessage)
  IN IF tableName # <<>> THEN ColumnsOfTableHead \o tableName \o ColumnsOfTableTail
     ELSE IF includes(lowerMessage, <<"c","o","l","u","m","n">>) \/ includes(lowerMessage, <<"f","i","e","l","d">>) THEN ColumnsOfAllTables
     ELSE AllTables

\* the assistant messages processRequest returns
SecurityBlockResponse(nlToSqlResult) ==
  [role |-> "assistant",
   content |-> <<securityBlockResponseMessage(nlToSqlResult.securityAlert)>>,
   metadata |-> [security_alert |-> nlToSqlResult.securityAlert]]

\* variant of ExecutionErrorResponse that reports the failure as a security
\* alert
ExecutionErrorAsAlert(nlToSqlResult, message) ==
  [role |-> "assistant",
   content |-> <<"I couldn't execute the SQL query:">> \o message,
   metadata |-> [sql_query |-> nlToSqlResult.sqlQuery, entities |-> nlToSqlResult.entities,
                 intent |-> nlToSqlResult.intent, error |-> message,
                 security_alert |-> [type |-> "sql_validation", severity |-> "high", details |-> message]]]

ExecutionErrorResponse(nlToSqlResult, message) ==
  [role |-> "assistant",
   content |-> <<"I couldn't execute the SQL query:">> \o message,
   metadata |-> [sql_query |-> nlToSqlResult.sqlQuery, entities |-> nlToSqlResult.entities,
                 intent |-> nlToSqlResult.intent, error |-> message]]

SuccessResponse(nlToSqlResult, sqlResults) ==
  [role |-> "assistant",
   content |-> <<"I converted your question to SQL and executed it:", nlToSqlResult.sqlQuery,
                 "rows returned:", sqlResults.rowCount>>,
   metadata |-> [sql_query |-> nlToSqlResult.sqlQuery, entities |-> nlToSqlResult.entities,
                 intent |-> nlToSqlResult.intent, results |-> sqlResults]]

ProcessingErrorResponse(message) ==
  [role |-> "assistant",
   content |-> <<"Error processing your request:">> \o message,
   metadata |-> [error |-> message]]

SchemaResponse(schemaQuery, schemaResults) ==
  [role |-> "assistant",
   content |-> <<"Here's the database schema information you requested:", schemaResults.rowCount>>,
   metadata |-> [sql_query |-> schemaQuery, intent |-> "SCHEMA_QUERY", results |-> schemaResults]]

SchemaErrorResponse(message) ==
  [role |-> "assistant",
   content |-> <<"I couldn't retrieve the schema information:">> \o message,
   metadata |-> [error |-> message]]

ToolCallResponse(results) ==
  [role |-> "assistant", content |-> <<>>, tool_call_results |-> results]

\* the Error executeQuery throws (dbConnector.js)
QueryError == <<"Failed to execute SQL query:", "database error">>
NoSqlError == <<"No SQL query was generated">>

\* is the value returned by processNaturalLanguage a security block
IsSecurityBlocked(nlToSqlResult) ==
  "error" \in DOMAIN nlToSqlResult /\ nlToSqlResult.intent = "SECURITY_BLOCKED"

(***************************************************************************)
(* toolRegistry.js and the tool handlers registered by mcpServer.js        *)
(***************************************************************************)
\* the names registered at start-up
RegisteredTools == {"sql_generator", "sql_executor", "workbench_export"}

ToolNotFound(toolName) == <<"Tool with name", toolName, "not found">>

\* a sub-operation of a request: st is where it stands ("translating",
\* "executing", "exporting": awaiting that collaborator; "settled": its
\* promise has resolved to out[1], or was rejected with out[1].error)
Settled(call, ok, value) ==
  [id |-> call.id, name |-> call.name, parameters |-> call.parameters, st |-> "settled",
   out |-> <<[ok |-> ok, value |-> value]>>]
Awaiting(call, st) ==
  [id |-> call.id, name |-> call.name, parameters |-> call.parameters, st |-> st, out |-> <<>>]
\* the callback of a tool call threw outside its try block: its promise is
\* rejected with error and no entry of tool_call_results is made for it
Rejected(call, error) ==
  [id |-> call.id, name |-> call.name, parameters |-> call.parameters, st |-> "rejected",
   out |-> <<[ok |-> FALSE, value |-> error]>>]

\* the sql_generator handler up to its first await, started being what
\* processNaturalLanguage did up to its own
generatorRun(call, started) ==
  IF started.returned
  THEN [run |-> Settled(call, TRUE, started.value), calls |-> started.calls]
  ELSE [run |-> Awaiting(call, "translating"), calls |-> started.calls]

\* toolRegistry.executeTool(name, parameters, context) up to the handler's
\* first await: the run it leaves behind and the calls made
executeTool(who, call) ==
  IF call.name \notin RegisteredTools THEN
    [run |-> Settled(call, FALSE, ToolNotFound(call.name)), calls |-> <<>>]
  ELSE IF ~call.parameters.given THEN
    [run |-> Settled(call, FALSE, TypeError(IF call.name = "sql_generator" THEN "query" ELSE "sql")),
     calls |-> <<>>]
  ELSE IF call.name = "sql_executor" THEN
    [run |-> Awaiting(call, "executing"),
     calls |-> <<Call(who, "executeQuery", call.parameters.sql, TRUE)>>]
  ELSE IF call.name = "sql_generator" THEN
    generatorRun(call, pnlStart(who, call.parameters.query))
  ELSE
    [run |-> Awaiting(call, "exporting"),
     calls |-> <<Call(who, "applyToMySQLWorkbench", call.parameters.sql, TRUE)>>]

\* the callback processRequest maps over tool_calls, up to its first await:
\* isSafe is what verifyToolCallSafety returned, started what executeTool does
verifiedRun(who, call, isSafe, started) ==
  IF Threw(isSafe) THEN
    [run |-> Rejected(call, isSafe.reason), calls |-> <<>>]
  ELSE IF call.name \in {"sql_generator", "sql_executor"} /\ ~isSafe.valid THEN
    [run |-> Settled(call, FALSE, isSafe.reason),
     calls |-> verifyCalls(who, call.name, call.parameters, isSafe)]
  ELSE
    [run |-> started.run,
     calls |-> verifyCalls(who, call.name, call.parameters, isSafe) \o started.calls]

dispatchToolCall(who, call) ==
  verifiedRun(who, call, verifyToolCallSafety(call.name, call.parameters), executeTool(who, call))

\* the entry of tool_call_results for a settled run
ToolCallResult(run) ==
  IF run.out[1].ok
  THEN [tool_call_id |-> run.id, name |-> run.name, result |-> run.out[1].value, success |-> TRUE]
  ELSE [tool_call_id |-> run.id, name |-> run.name, error |-> run.out[1].value, success |-> FALSE]

RECURSIVE Flatten(_)
Flatten(seqs) == IF seqs = <<>> THEN <<>> ELSE Head(seqs) \o Flatten(Tail(seqs))

AllSettled(rs) == \A i \in DOMAIN rs : rs[i].st = "settled"

\* Promise.all rejects with the first rejection among the callbacks
AnyRejected(rs) == \E i \in DOMAIN rs : rs[i].st = "rejected"
FirstRejected(rs) == rs[CHOOSE i \in DOMAIN rs : rs[i].st = "rejected" /\ \A k \in 1..(i - 1) : rs[k].st # "rejected"]

(***************************************************************************)
(* enhancedContextManager.js                                               *)
(***************************************************************************)
\* maxMessageHistory as mcpServer.js configures it
maxMessageHistory == 50

NewContext(userId) ==
  [userId |-> userId, sessionEntities |-> <<>>, messageHistory |-> <<>>, toolState |-> <<>>,
   contextSize |-> 0, memoryBlocks |-> <<>>,
   lastQuery |-> <<>>, lastSql |-> <<>>, lastResult |-> <<>>]

\* the store after getUserContext(userId): a context is created on a miss
getUserContext(store, userId) ==
  IF userId \in DOMAIN store THEN store
  ELSE [u \in DOMAIN store \cup {userId} |-> IF u = userId THEN NewContext(userId) ELSE store[u]]

\* variant of TrimHistory that drops the newest messages
RECURSIVE TrimHistoryNewest(_)
TrimHistoryNewest(h) ==
  IF Len(h) > maxMessageHistory THEN TrimHistoryNewest(SubSeq(h, 1, Len(h) - 1)) ELSE h

\* the sliding window: the oldest messages are shifted out
RECURSIVE TrimHistory(_)
TrimHistory(h) == IF Len(h) > maxMessageHistory THEN TrimHistory(Tail(h)) ELSE h

\* the store after updateContext(userId, {messageHistory: messages})
updateMessageHistory(store, userId, messages) ==
  LET got == getUserContext(store, userId)
  IN IF Len(messages) > 0
     THEN [got EXCEPT ![userId].messageHistory = TrimHistory(@ \o messages)]
     ELSE got

(***************************************************************************)
(* The server: one request is handled at a time.                           *)
(***************************************************************************)
VARIABLES
  contexts,   \* contextManager.contexts: userId -> context
  pc,         \* where the request in flight stands ("idle": none in flight)
  req,        \* the request in flight, or the last one handled
  nl,         \* <<nlToSqlResult>> once processNaturalLanguage has returned
  runs,       \* the sub-operations of a tool request, in tool_calls order
  calls,      \* the validator and collaborator calls made for req, in order
  resp,       \* <<the HTTP response to req>>, or <<>> while none is sent
  served,     \* the number of requests accepted so far
  subject,    \* the arguments a filter of securityFilter.js is applied to
  verdict,    \* <<what the filter returned>>, or <<>> before it is applied
  variant,    \* which context manager a store is: "simple", "enhanced", "redis"
  entries,    \* the contexts of a context manager on its own: userId -> context
  oplog,      \* the operations carried out on the store, in order
  returned,   \* <<what the last operation returned>>
  locks,      \* redlock: resource -> the update that holds its lock
  updates     \* the updateContext calls of the redis store: where each stands
serverVars == <<contexts, pc, req, nl, runs, calls, resp, served>>
filterVars == <<subject, verdict>>
storeVars == <<variant, entries, oplog, returned, locks, updates>>
vars == <<contexts, pc, req, nl, runs, calls, resp, served, subject, verdict,
          variant, entries, oplog, returned, locks, updates>>

\* requests a behaviour of the model accepts
MaxRequests == 2

NoRequest == [route |-> "none", userId |-> "", messages |-> <<>>, call |-> ToolCall("", "", <<>>, <<>>)]
ChatRequest(u, messages) == [NoRequest EXCEPT !.route = "chat", !.userId = u, !.messages = messages]
ToolRequest(u, call) == [NoRequest EXCEPT !.route = "tool", !.userId = u, !.call = call]

\* the server after start-up: no context, no request yet
Started ==
  /\ contexts = <<>>
  /\ pc = "idle"
  /\ req = NoRequest
  /\ nl = <<>>
  /\ runs = <<>>
  /\ calls = <<>>
  /\ resp = <<>>
  /\ served = 0

NoSubject == [fn |-> "none", query |-> <<>>, sql |-> <<>>]

\* no store on its own
NoStore ==
  /\ variant = "none"
  /\ entries = <<>>
  /\ oplog = <<>>
  /\ returned = <<>>
  /\ locks = <<>>
  /\ updates = <<>>

Init == Started /\ subject = NoSubject /\ verdict = <<>> /\ NoStore


(***************************************************************************)
(* The functions the handlers call, tabulated over the texts and calls the *)
(* model's clients send: each is worked out once for every argument.       *)
(***************************************************************************)
SentTexts == ChatTexts \cup {c.parameters.query : c \in DirectCalls}
CallIndices == 1..2
isSchemaQueryOn == [t \in SentTexts |-> isSchemaQuery(t)] @@ <<>>
generateSchemaQueryOn == [t \in SentTexts |-> generateSchemaQuery(t)] @@ <<>>
pnlStartOn == [t \in SentTexts |-> pnlStart(0, t)] @@ <<>>
pnlResumeOn ==
  [x \in (0..2) \X SentTexts \X ParsedResults |-> pnlResume(x[1], x[2], x[3])] @@ <<>>
dispatchToolCallOn == [x \in CallIndices \X DirectCalls |-> dispatchToolCall(x[1], x[2])] @@ <<>>
executeToolOn == [c \in DirectCalls |-> executeTool(1, c)] @@ <<>>

\* a request is accepted when none is in flight
Accept == pc = "idle" /\ served < MaxRequests /\ served' = served + 1

\* res.json of the chat route, after updateContext(userId, {messageHistory})
ChatReply(request, store, message) ==
  /\ contexts' = updateMessageHistory(store, request.userId, request.messages)
  /\ resp' = <<[status |-> 200, body |-> [object |-> "chat.completion", message |-> message]]>>
  /\ pc' = "idle"

\* the reply of the tool route: the handler's value, or status 500 with the
\* message of the error it threw
ToolReply(run) ==
  /\ resp' = <<IF run.out[1].ok
               THEN [status |-> 200, body |-> [success |-> TRUE, tool |-> run.name, result |-> run.out[1].value]]
               ELSE [status |-> 500, body |-> [error |-> run.out[1].value]]>>
  /\ pc' = "idle"

\* the running conversation as the client holds it after a chat turn: the
\* messages it sent and the message of the assistant.  A client sends a new
\* message on its own, or after the conversation; the conversations sent
\* again are those whose last question is one of ResentTexts
ResentTexts == {<<"a","l","l"," ","u","s","e","r","s">>}
Conversation ==
  IF /\ req.route = "chat" /\ resp # <<>> /\ resp[1].status = 200
     /\ req.messages[Len(req.messages)].content \in ResentTexts
  THEN req.messages \o <<resp[1].body.message>> ELSE <<>>
Resends == {<<>>, Conversation}

\* POST /api/v1/chat without userId or with an empty messages array
PostChatInvalid(u) ==
  /\ Accept
  /\ req' = ChatRequest(u, <<>>)
  /\ resp' = <<[status |-> 400, body |-> [error |-> <<"Invalid request format">>]]>>
  /\ calls' = <<>> /\ nl' = <<>> /\ runs' = <<>>
  /\ UNCHANGED <<contexts, pc>>
  /\ UNCHANGED <<filterVars, storeVars>>

\* POST /api/v1/chat whose last message carries tool_calls: every call is
\* verified and started in list order; the turn answers once all have settled
PostChatToolCalls(u, message) ==
  /\ Accept
  /\ Len(message.tool_calls) > 0
  /\ \E resent \in Resends : req' = ChatRequest(u, resent \o <<message>>)
  /\ nl' = <<>>
  /\ \E started \in {[i \in DOMAIN message.tool_calls |-> dispatchToolCallOn[<<i, message.tool_calls[i]>>]]} :
       /\ runs' = [i \in DOMAIN started |-> started[i].run]
       /\ calls' = Flatten([i \in DOMAIN started |-> started[i].calls])
  /\ IF AnyRejected(runs')
     THEN ChatReply(req', getUserContext(contexts, u),
                    ProcessingErrorResponse(FirstRejected(runs').out[1].value))
     ELSE IF AllSettled(runs')
     THEN ChatReply(req', getUserContext(contexts, u),
                    ToolCallResponse([i \in DOMAIN runs' |-> ToolCallResult(runs'[i])]))
     ELSE /\ contexts' = getUserContext(contexts, u)
          /\ pc' = "dispatching"
          /\ resp' = <<>>
  /\ UNCHANGED <<filterVars, storeVars>>

\* POST /api/v1/chat with a schema question: the introspection query is built
\* and handed to the executor
PostChatSchema(u, message) ==
  /\ Accept
  /\ Len(message.tool_calls) = 0
  /\ isSchemaQueryOn[message.content]
  /\ \E resent \in Resends : req' = ChatRequest(u, resent \o <<message>>)
  /\ contexts' = getUserContext(contexts, u)
  /\ calls' = <<Call(0, "executeQuery", generateSchemaQueryOn[message.content], TRUE)>>
  /\ pc' = "schema"
  /\ nl' = <<>> /\ runs' = <<>> /\ resp' = <<>>
  /\ UNCHANGED <<filterVars, storeVars>>

\* POST /api/v1/chat with a natural-language message: processNaturalLanguage
\* either blocks the input or awaits the translator
PostChatNaturalLanguage(u, message) ==
  /\ Accept
  /\ Len(message.tool_calls) = 0
  /\ ~isSchemaQueryOn[message.content]
  /\ \E resent \in Resends : req' = ChatRequest(u, resent \o <<message>>)
  /\ runs' = <<>>
  /\ \E started \in {pnlStartOn[message.content]} :
       /\ calls' = started.calls
       /\ IF started.returned
          THEN /\ nl' = <<started.value>>
               /\ ChatReply(req', getUserContext(contexts, u), SecurityBlockResponse(started.value))
          ELSE /\ nl' = <<>>
               /\ contexts' = getUserContext(contexts, u)
               /\ pc' = "translating"
               /\ resp' = <<>>
  /\ UNCHANGED <<filterVars, storeVars>>

\* the text of the natural-language turn in flight
UserMessage == req.messages[Len(req.messages)].content

\* the translator answers: the SQL is validated and assessed, and either the
\* turn is blocked, or fails for want of a query, or the query is executed
TranslatorResponds(parsedResult) ==
  /\ pc = "translating"
  /\ \E resumed \in {pnlResumeOn[<<0, UserMessage, parsedResult>>]} :
       /\ nl' = <<resumed.value>>
       /\ IF IsSecurityBlocked(resumed.value) THEN
            /\ calls' = calls \o resumed.calls
            /\ ChatReply(req, contexts, SecurityBlockResponse(resumed.value))
          ELSE IF resumed.value.sqlQuery = <<>> THEN
            /\ calls' = calls \o resumed.calls
            /\ ChatReply(req, contexts, ExecutionErrorResponse(resumed.value, NoSqlError))
          ELSE
            /\ calls' = calls \o resumed.calls \o <<Call(0, "executeQuery", resumed.value.sqlQuery, TRUE)>>
            /\ pc' = "executing"
            /\ UNCHANGED <<contexts, resp>>
  /\ UNCHANGED <<req, runs, served>>
  /\ UNCHANGED <<filterVars, storeVars>>

\* the translator call, or the parsing of its answer, throws
TranslatorFails ==
  /\ pc = "translating"
  /\ ChatReply(req, contexts, ProcessingErrorResponse(ConversionError))
  /\ UNCHANGED <<req, nl, runs, calls, served>>
  /\ UNCHANGED <<filterVars, storeVars>>

\* executeQuery resolves: the context takes the turn's query, SQL and result
QuerySucceeds(sqlResults) ==
  /\ pc = "executing"
  /\ ChatReply(req,
               [contexts EXCEPT ![req.userId].lastQuery = UserMessage,
                                ![req.userId].lastSql = nl[1].sqlQuery,
                                ![req.userId].lastResult =
                                   <<[rowCount |-> sqlResults.rowCount,
                                      summary |-> <<"Returned", sqlResults.rowCount, "rows">>]>>],
               SuccessResponse(nl[1], sqlResults))
  /\ UNCHANGED <<req, nl, runs, calls, served>>
  /\ UNCHANGED <<filterVars, storeVars>>

\* executeQuery throws
QueryFails ==
  /\ pc = "executing"
  /\ ChatReply(req, contexts, ExecutionErrorResponse(nl[1], QueryError))
  /\ UNCHANGED <<req, nl, runs, calls, served>>
  /\ UNCHANGED <<filterVars, storeVars>>

\* the schema query resolves or throws
SchemaQuerySucceeds(schemaResults) ==
  /\ pc = "schema"
  /\ ChatReply(req, contexts, SchemaResponse(calls[1].arg, schemaResults))
  /\ UNCHANGED <<req, nl, runs, calls, served>>
  /\ UNCHANGED <<filterVars, storeVars>>

SchemaQueryFails ==
  /\ pc = "schema"
  /\ ChatReply(req, contexts, SchemaErrorResponse(QueryError))
  /\ UNCHANGED <<req, nl, runs, calls, served>>
  /\ UNCHANGED <<filterVars, storeVars>>

\* POST /api/v1/tools/:toolName without parameters
PostToolInvalid(u, call) ==
  /\ Accept
  /\ ~call.parameters.given
  /\ req' = ToolRequest(u, call)
  /\ resp' = <<[status |-> 400, body |-> [error |-> <<"Missing userId or parameters">>]]>>
  /\ calls' = <<>> /\ nl' = <<>> /\ runs' = <<>>
  /\ UNCHANGED <<contexts, pc>>
  /\ UNCHANGED <<filterVars, storeVars>>

\* POST /api/v1/tools/:toolName: the handler is invoked through the registry
PostTool(u, call) ==
  /\ Accept
  /\ call.parameters.given
  /\ req' = ToolRequest(u, call)
  /\ contexts' = getUserContext(contexts, u)
  /\ nl' = <<>>
  /\ \E started \in {executeToolOn[call]} :
       /\ runs' = <<started.run>>
       /\ calls' = started.calls
  /\ IF runs'[1].st = "settled"
     THEN ToolReply(runs'[1])
     ELSE pc' = "tool" /\ resp' = <<>>
  /\ UNCHANGED <<filterVars, storeVars>>

\* POST /api/v1/context/:userId with action 'clear': the handler is
\* synchronous and may run while a turn awaits a collaborator; it always
\* answers {success: true}
PostContextClear(u) ==
  /\ u \in DOMAIN contexts
  /\ contexts' = [v \in DOMAIN contexts \ {u} |-> contexts[v]]
  /\ UNCHANGED <<pc, req, nl, runs, calls, resp, served>>
  /\ UNCHANGED <<filterVars, storeVars>>

\* sub-operation i settles with run r; the request answers when all have
Settle(i, r, made) ==
  /\ runs' = [runs EXCEPT ![i] = r]
  /\ calls' = calls \o made
  /\ IF ~AllSettled(runs') THEN UNCHANGED <<contexts, pc, resp>>
     ELSE IF req.route = "chat"
     THEN ChatReply(req, contexts, ToolCallResponse([k \in DOMAIN runs' |-> ToolCallResult(runs'[k])]))
     ELSE ToolReply(runs'[1]) /\ UNCHANGED contexts
  /\ UNCHANGED <<req, nl, served>>

\* sub-operation i awaits its collaborator; after a rejection has answered the
\* turn the sub-operations still in flight go on unobserved (pc = "idle")
InFlight(i, st) == pc \in {"dispatching", "tool", "idle"} /\ i \in DOMAIN runs /\ runs[i].st = st

\* the translator answers the sql_generator handler of sub-operation i
ToolTranslatorResponds(i, parsedResult) ==
  /\ InFlight(i, "translating")
  /\ \E resumed \in {pnlResumeOn[<<i, runs[i].parameters.query, parsedResult>>]} :
       Settle(i, Settled(runs[i], TRUE, resumed.value), resumed.calls)
  /\ UNCHANGED <<filterVars, storeVars>>

ToolTranslatorFails(i) ==
  /\ InFlight(i, "translating")
  /\ Settle(i, Settled(runs[i], FALSE, ConversionError), <<>>)
  /\ UNCHANGED <<filterVars, storeVars>>

\* executeQuery resolves or throws in the sql_executor handler
ToolQuerySucceeds(i, sqlResults) ==
  /\ InFlight(i, "executing")
  /\ Settle(i, Settled(runs[i], TRUE, sqlResults), <<>>)
  /\ UNCHANGED <<filterVars, storeVars>>

ToolQueryFails(i) ==
  /\ InFlight(i, "executing")
  /\ Settle(i, Settled(runs[i], FALSE, QueryError), <<>>)
  /\ UNCHANGED <<filterVars, storeVars>>

\* applyToMySQLWorkbench resolves or throws in the workbench_export handler
ToolExportSettles(i, ok) ==
  /\ InFlight(i, "exporting")
  /\ Settle(i, Settled(runs[i], ok, IF ok THEN <<"created">> ELSE <<"export error">>), <<>>)
  /\ UNCHANGED <<filterVars, storeVars>>

Next ==
  \/ \E u \in Users : PostChatInvalid(u)
  \/ \E u \in Users, m \in ChatMessages : PostChatToolCalls(u, m)
  \/ \E u \in Users, m \in ChatMessages : PostChatSchema(u, m)
  \/ \E u \in Users, m \in ChatMessages : PostChatNaturalLanguage(u, m)
  \/ \E p \in ParsedResults : TranslatorResponds(p)
  \/ TranslatorFails
  \/ \E r \in QueryResults : QuerySucceeds(r)
  \/ QueryFails
  \/ \E r \in QueryResults : SchemaQuerySucceeds(r)
  \/ SchemaQueryFails
  \/ \E u \in Users : PostContextClear(u)
  \/ \E u \in Users, c \in DirectCalls : PostToolInvalid(u, c)
  \/ \E u \in Users, c \in DirectCalls : PostTool(u, c)
  \/ \E i \in DOMAIN runs, p \in ParsedResults : ToolTranslatorResponds(i, p)
  \/ \E i \in DOMAIN runs : ToolTranslatorFails(i)
  \/ \E i \in DOMAIN runs, r \in QueryResults : ToolQuerySucceeds(i, r)
  \/ \E i \in DOMAIN runs : ToolQueryFails(i)
  \/ \E i \in DOMAIN runs, ok \in BOOLEAN : ToolExportSettles(i, ok)

Spec == Init /\ [][Next]_vars



(***************************************************************************)
(* The filters of securityFilter.js on their own: a filter is applied to   *)
(* arguments drawn from the texts below.                                   *)
(***************************************************************************)
\* every text made of at most n of the fragments, in any order
RECURSIVE Concats(_, _)
Concats(frags, n) ==
  IF n = 0 THEN {<<>>}
  ELSE LET shorter == Concats(frags, n - 1)
       IN shorter \cup {s \o f : s \in shorter, f \in frags}

\* natural-language inputs: quotes, semicolons, dashes, line breaks and words
MaxFrags == 3
QueryFrags == {<<"'">>, <<";">>, <<"-","-">>, <<"-">>, <<"\n">>, <<"a"," ","b">>}
\* questions that name an operation, negated or not, in lower and in mixed
\* case, and questions that end in a semicolon
OperationQueries == {
  <<"u","s","e","r","s"," ","w","h","o"," ","d","i","d","n","'","t"," ","d","e","l","e","t","e"," ","t","h","e","i","r"," ","a","c","c","o","u","n","t">>, <<"U","s","e","r","s"," ","w","h","o"," ","D","i","d","n","'","t"," ","D","e","l","e","t","e"," ","t","h","e","i","r"," ","a","c","c","o","u","n","t">>,
  <<"u","s","e","r","s"," ","w","h","o"," ","d","i","d"," ","n","o","t"," ","d","e","l","e","t","e"," ","b","u","t"," ","d","r","o","p"," ","t","a","b","l","e","s">>, <<"n","e","v","e","r"," ","d","e","l","e","t","e"," ","o","r"," ","u","p","d","a","t","e"," ","r","o","w","s">>,
  <<"d","e","l","e","t","e"," ","o","l","d"," ","r","o","w","s">>, <<"d","r","o","p","d","o","w","n"," ","v","a","l","u","e","s">>, <<"s","h","o","w"," ","t","h","e"," ","s","y","s","t","e","m"," ","l","o","a","d">>, <<"n","o","t"," ","d","e","l","e","t","e","d"," ","u","s","e","r","s">>,
  <<"u","s","e","r","s",";">>, <<"S","h","o","w"," ","u","s","e","r","s",";">>, <<"S","H","O","W"," ","U","S","E","R","S",";">>, <<"l","i","s","t"," ","u","s","e","r","s",";"," ","l","i","s","t"," ","o","r","d","e","r","s">>, <<"L","I","S","T"," ","A","D","M","I","N"," ","P","a","s","s","w","o","r","d","s">>,
  <<"S","h","o","w"," ","m","e"," ","a","l","l"," ","u","s","e","r","s","'"," ","p","a","s","s","w","o","r","d","s">>, <<"L","i","s","t"," ","t","h","e"," ","P","a","s","s","w","o","r","d"," ","h","i","n","t","s">>, <<"u","s","e","r"," ","t","o","k","e","n","s">> }
Queries == Concats(QueryFrags, MaxFrags) \cup ChatTexts \cup OperationQueries

\* SQL texts with a word between what precedes and what follows it: each
\* dangerous operation in upper, lower and mixed case, and longer words that
\* contain one
MaxPad == 1
PadFrags == {<<" ">>, <<"_">>, <<",">>}
Pads == Concats(PadFrags, MaxPad)
Capitalized(w) == [k \in DOMAIN w |-> IF k = 1 THEN toUpperChar(w[k]) ELSE w[k]]
OperationWords ==
  UNION {{DANGEROUS_OPERATIONS[k].w, toUpperCase(DANGEROUS_OPERATIONS[k].w),
          Capitalized(DANGEROUS_OPERATIONS[k].w)} : k \in DOMAIN DANGEROUS_OPERATIONS}
LongerWords == {<<"d","r","o","p","d","o","w","n">>, <<"U","P","D","A","T","E","D">>, <<"e","x","e","c","u","t","o","r">>, <<"I","n","s","e","r","t","s">>, <<"r","e","a","l","t","e","r">>, <<"g","r","a","n","t","s">>}
WordTexts == {l \o w \o r : l \in Pads, w \in OperationWords \cup LongerWords, r \in Pads}

\* SELECT statements, on one line or two, over plain and schema tables
SelectLists == {<<"a">>, <<"a",",","b">>, <<"a",",","\n","b">>, <<"a",","," ","b",","," ","c">>, <<"*">>}
TableNames == {
  <<"t">>, <<"i","n","f","o","r","m","a","t","i","o","n","_","s","c","h","e","m","a",".","t","a","b","l","e","s">>, <<"I","N","F","O","R","M","A","T","I","O","N","_","S","C","H","E","M","A",".","C","O","L","U","M","N","S">>, <<"I","n","f","o","r","m","a","t","i","o","n","_","S","c","h","e","m","a",".","T","a","b","l","e","s">>,
  <<"x","i","n","f","o","r","m","a","t","i","o","n","_","s","c","h","e","m","a",".","t","a","b","l","e","s">> }
Keywords == {[select |-> <<"S","E","L","E","C","T">>, from |-> <<"F","R","O","M">>], [select |-> <<"s","e","l","e","c","t">>, from |-> <<"f","r","o","m">>]}
Select(kw, list, table) == kw.select \o <<" ">> \o list \o <<" ">> \o kw.from \o <<" ">> \o table
Selects == {Select(kw, list, table) : kw \in Keywords, list \in SelectLists, table \in TableNames}

\* two SELECT statements joined by UNION or UNION ALL
UnionWords == {<<" ","U","N","I","O","N"," ">>, <<" ","U","N","I","O","N"," ","A","L","L"," ">>, <<" ","u","n","i","o","n"," ">>, <<"\n","U","N","I","O","N"," ","A","L","L","\n">>}
Sides == {Select([select |-> <<"S","E","L","E","C","T">>, from |-> <<"F","R","O","M">>], list, <<"t">>) : list \in SelectLists}
Unions == {a \o u \o b : a \in Sides, u \in UnionWords, b \in Sides}

\* SQL with more than one dangerous word, and statements in sequence
StackedSqls == {
  <<"D","E","L","E","T","E"," ","F","R","O","M"," ","t",";"," ","T","R","U","N","C","A","T","E"," ","T","A","B","L","E"," ","t">>, <<"U","P","D","A","T","E"," ","t"," ","S","E","T"," ","a"," ","="," ","1",";"," ","G","R","A","N","T"," ","A","L","L"," ","O","N"," ","t"," ","T","O"," ","x">>,
  <<"D","R","O","P"," ","T","A","B","L","E"," ","t",";"," ","D","E","L","E","T","E"," ","F","R","O","M"," ","t">>, <<"I","N","S","E","R","T"," ","I","N","T","O"," ","t"," ","S","E","L","E","C","T"," ","a"," ","F","R","O","M"," ","s">>, <<"d","e","l","e","t","e"," ","f","r","o","m"," ","t"," ","w","h","e","r","e"," ","a"," ","="," ","1">>,
  <<"A","L","T","E","R"," ","T","A","B","L","E"," ","t"," ","A","D","D"," ","b",";"," ","I","N","S","E","R","T"," ","I","N","T","O"," ","t"," ","V","A","L","U","E","S"," ","(","1",")">>, <<"E","X","E","C"," ","p",";"," ","U","P","D","A","T","E"," ","t"," ","S","E","T"," ","a"," ","="," ","1">>,
  <<"S","E","L","E","C","T"," ","a"," ","F","R","O","M"," ","t",";"," ","S","E","L","E","C","T"," ","b"," ","F","R","O","M"," ","t",";">>, <<"S","E","L","E","C","T"," ","a"," ","F","R","O","M"," ","t",";"," ","S","E","L","E","C","T"," ","b"," ","F","R","O","M"," ","t">>, <<"S","E","L","E","C","T"," ","a"," ","F","R","O","M"," ","t",";"," ","\n">>,
  <<"S","E","L","E","C","T"," ","a"," ","F","R","O","M"," ","t",";","x",";"," ">>, <<";">>, <<"S","E","L","E","C","T"," ","'",";","'"," ","F","R","O","M"," ","t">>, <<"S","E","L","E","C","T"," ","a"," ","F","R","O","M"," ","t"," ","U","N","I","O","N"," ","S","E","L","E","C","T"," ","x"," ","F","R","O","M"," ","y">> }

SqlTexts ==
  WordTexts \cup Selects \cup {s \o <<";">> : s \in Selects} \cup Unions \cup SqlOutputs \cup StackedSqls

\* questions and the SQL generated for them
AssessQueries == {
  <<"h","o","w"," ","m","a","n","y"," ","u","s","e","r","s"," ","c","h","a","n","g","e","d"," ","p","a","s","s","w","o","r","d">>, <<"s","h","o","w"," ","u","s","e","r"," ","p","a","s","s","w","o","r","d">>, <<"a","l","l"," ","u","s","e","r","s">>, <<"c","o","u","n","t"," ","u","s","e","r","s">>,
  <<"w","h","e","n"," ","w","a","s"," ","t","h","e"," ","p","a","s","s","w","o","r","d"," ","u","p","d","a","t","e","d">>, <<"l","i","s","t"," ","s","s","n">>, <<"l","a","s","t"," ","p","a","s","s","w","o","r","d"," ","c","h","a","n","g","e">>, <<"a","d","m","i","n"," ","u","s","e","r"," ","n","a","m","e","s">> }
AssessSqls == {
  <<"S","E","L","E","C","T"," ","a"," ","F","R","O","M"," ","t">>, <<"S","E","L","E","C","T"," ","p","a","s","s","w","o","r","d"," ","F","R","O","M"," ","u","s","e","r","s">>, <<"S","E","L","E","C","T"," ","C","O","U","N","T","(","p","a","s","s","w","o","r","d",")"," ","F","R","O","M"," ","u","s","e","r","s">>,
  <<"S","E","L","E","C","T"," ","s","s","n"," ","F","R","O","M"," ","t">>, <<"S","E","L","E","C","T"," ","n","a","m","e"," ","F","R","O","M"," ","u","s","e","r","s"," ","W","H","E","R","E"," ","p","a","s","s","w","o","r","d","_","c","h","a","n","g","e","d"," ","="," ","1">> }

Subject(fn, question, text) == [fn |-> fn, query |-> question, sql |-> text]
Subjects ==
  {Subject("validateNaturalLanguageInput", q, <<>>) : q \in Queries}
    \cup {Subject("validateSql", <<>>, s) : s \in SqlTexts}
    \cup {Subject("assessSensitiveDataRequest", q, s) : q \in AssessQueries, s \in AssessSqls}

FilterInit == Started /\ subject \in Subjects /\ verdict = <<>> /\ NoStore

ValidatesInput ==
  /\ subject.fn = "validateNaturalLanguageInput"
  /\ verdict = <<>>
  /\ verdict' = <<validateNaturalLanguageInput(subject.query)>>
  /\ UNCHANGED <<subject, serverVars, storeVars>>

ValidatesSql ==
  /\ subject.fn = "validateSql"
  /\ verdict = <<>>
  /\ verdict' = <<validateSql(subject.sql)>>
  /\ UNCHANGED <<subject, serverVars, storeVars>>

Assesses ==
  /\ subject.fn = "assessSensitiveDataRequest"
  /\ verdict = <<>>
  /\ verdict' = <<assessSensitiveDataRequest(subject.query, subject.sql)>>
  /\ UNCHANGED <<subject, serverVars, storeVars>>

FilterNext == ValidatesInput \/ ValidatesSql \/ Assesses

SpecFilter == FilterInit /\ [][FilterNext]_vars


(***************************************************************************)
(* The context managers on their own: ContextManager (contextManager.js,   *)
(* "simple") and EnhancedContextManager (enhancedContextManager.js,        *)
(* "enhanced").  Both keep their contexts in a Map and their methods are   *)
(* synchronous, so calls made concurrently run one after the other, in any *)
(* order.  A context is a function from property names to values; new      *)
(* Date() is in milliseconds: an operation takes one, and the timer that   *)
(* sweeps the store fires after a wait.                                    *)
(***************************************************************************)
StoreUsers == {"u1", "u2"}

\* variant of Delete that deletes nothing
DeleteNothing(map, k) == map

\* the map with key k set to v, and with key k deleted
Put(map, k, v) == [x \in DOMAIN map \cup {k} |-> IF x = k THEN v ELSE map[x]]
Delete(map, k) == [x \in DOMAIN map \ {k} |-> map[x]]

\* Object.assign(target, source), and the spread {...a, ...b}
Assign(target, source) ==
  [k \in DOMAIN target \cup DOMAIN source |-> IF k \in DOMAIN source THEN source[k] ELSE target[k]]

\* array.slice(0, n)
Take(array, n) == SubSeq(array, 1, IF Len(array) < n THEN Len(array) ELSE n)

\* the entries of queryHistory kept
queryHistoryLimit == 5

\* variant of SimpleGetUserContext and EnhancedGetUserContext that sets a new
\* context whether or not the user has one
GetUserContextAnew(map, userId, now) ==
  Put(map, userId, [userId |-> userId, createdAt |-> now, updatedAt |-> now,
                    sessionEntities |-> <<>>, messageHistory |-> <<>>, toolState |-> <<>>,
                    contextSize |-> 0, memoryBlocks |-> <<>>])

\* ContextManager.getUserContext: the store after the call
SimpleNewContext(userId, now) ==
  [userId |-> userId, createdAt |-> now, updatedAt |-> now,
   sessionEntities |-> <<>>, queryHistory |-> <<>>]

SimpleGetUserContext(map, userId, now) ==
  IF userId \notin DOMAIN map
  THEN Put(map, userId, SimpleNewContext(userId, now))
  ELSE [map EXCEPT ![userId].updatedAt = now]

\* the entry unshifted onto queryHistory
HistoryEntry(newContextInfo, now) ==
  [query |-> newContextInfo.lastQuery,
   sql |-> IF "lastSql" \in DOMAIN newContextInfo THEN newContextInfo.lastSql ELSE <<>>,
   timestamp |-> now]

\* the context after Object.assign and the queryHistory step
SimpleUpdated(context, newContextInfo, now) ==
  IF "lastQuery" \in DOMAIN newContextInfo /\ newContextInfo.lastQuery # <<>>
  THEN [context EXCEPT !.queryHistory =
          Take(<<HistoryEntry(newContextInfo, now)>> \o @, queryHistoryLimit),
        !.updatedAt = now]
  ELSE [context EXCEPT !.updatedAt = now]

\* ContextManager.updateContext: the store after the call
SimpleUpdateContext(map, userId, newContextInfo, now) ==
  [SimpleGetUserContext(map, userId, now) EXCEPT
     ![userId] = SimpleUpdated(Assign(@, newContextInfo), newContextInfo, now)]

\* this.expirationTime: 30 minutes in the two ContextManagers, the hour
\* mcpServer.js configures in EnhancedContextManager
expirationTime == IF variant = "enhanced" THEN 60 * 60 * 1000 ELSE 30 * 60 * 1000

\* EnhancedContextManager.getUserContext: the store after the call
EnhancedNewContext(userId, now) ==
  [userId |-> userId, createdAt |-> now, updatedAt |-> now,
   sessionEntities |-> <<>>, messageHistory |-> <<>>, toolState |-> <<>>,
   contextSize |-> 0, memoryBlocks |-> <<>>]

\* variant of EnhancedGetUserContext that sets a new context in the place
\* of one older than the expiration time
EnhancedGetUserContextExpiring(map, userId, now) ==
  IF userId \notin DOMAIN map \/ now - map[userId].updatedAt > expirationTime
  THEN Put(map, userId, EnhancedNewContext(userId, now))
  ELSE [map EXCEPT ![userId].updatedAt = now]

EnhancedGetUserContext(map, userId, now) ==
  IF userId \notin DOMAIN map
  THEN Put(map, userId, EnhancedNewContext(userId, now))
  ELSE [map EXCEPT ![userId].updatedAt = now]

\* the context after each step of EnhancedContextManager.updateContext
EnhancedUpdated(context, newContextInfo, now) ==
  [context EXCEPT
     !.sessionEntities =
        IF "sessionEntities" \in DOMAIN newContextInfo
        THEN Assign(@, newContextInfo.sessionEntities) ELSE @,
     !.messageHistory =
        IF "messageHistory" \in DOMAIN newContextInfo /\ Len(newContextInfo.messageHistory) > 0
        THEN TrimHistory(@ \o newContextInfo.messageHistory) ELSE @,
     !.toolState =
        IF "toolState" \in DOMAIN newContextInfo
        THEN Assign(@, newContextInfo.toolState) ELSE @,
     !.memoryBlocks =
        IF "memoryBlocks" \in DOMAIN newContextInfo
        THEN @ \o newContextInfo.memoryBlocks ELSE @,
     !.updatedAt = now]

\* EnhancedContextManager.updateContext: the store after the call
EnhancedUpdateContext(map, userId, newContextInfo, now) ==
  [EnhancedGetUserContext(map, userId, now) EXCEPT
     ![userId] = EnhancedUpdated(@, newContextInfo, now)]

\* variant of Expired that takes a context of just the expiration time too
ExpiredAtTheTime(map, now) ==
  {userId \in DOMAIN map : now - map[userId].updatedAt >= expirationTime}

\* the users whose context cleanupExpiredContexts deletes at time now
Expired(map, now) == {userId \in DOMAIN map : now - map[userId].updatedAt > expirationTime}

\* cleanupExpiredContexts: the store after the call
cleanupExpiredContexts(map, now) ==
  [userId \in DOMAIN map \ Expired(map, now) |-> map[userId]]

\* the operations a behaviour of a store carries out
MaxOps == 3

\* the messages of one update: message k of the update made at time now
BatchSizes == {1, 30}
Batch(now, n) == [k \in 1..n |-> <<now, k>>]

\* a queryHistory a caller hands back in an update: six entries
SixEntries == [k \in 1..6 |-> [query |-> <<"o","l","d">>, sql |-> <<"S">>, timestamp |-> 0]]

\* the partial contexts callers pass to updateContext at time now
Partials(now) ==
  { [lastQuery |-> <<"X">>],
    [lastQuery |-> <<"Q">>, lastSql |-> <<"S">>],
    [sessionEntities |-> [y |-> 2]],
    [sessionEntities |-> [a |-> 1]],
    [sessionEntities |-> [a |-> 3]],
    [toolState |-> [t |-> 1]],
    [toolState |-> [v |-> 2]],
    [memoryBlocks |-> <<<<"m">>>>],
    [memoryBlocks |-> <<<<"m","1">>, <<"m","2">>, <<"m","3">>, <<"m","4">>, <<"m","5">>, <<"m","6">>>>],
    [queryHistory |-> SixEntries],
    [userId |-> "u2", createdAt |-> now + 1] }
  \cup {[messageHistory |-> Batch(now, n)] : n \in BatchSizes}

\* the second user is there to be left alone: one partial is passed for it
PartialsOf(u, now) == IF u = "u1" THEN Partials(now) ELSE {[sessionEntities |-> [a |-> 1]]}

\* setInterval(..., 15 * 60 * 1000): the time from one sweep to the next
cleanupInterval == 15 * 60 * 1000

\* the waits after which the timer fires: the interval of the timer, and up
\* to and over the expiration time of a context updated one operation
\* earlier
Waits == {cleanupInterval, expirationTime - 1, expirationTime}

\* the length of a stretch without a request or a sweep, and the times after
\* which a getUserContext arrives: at once, or after such a stretch
IdleTime == expirationTime
Arrivals == {0, IdleTime}

Operation(fn, userId, info) == [fn |-> fn, userId |-> userId, info |-> info]
Swept(after, deleted) ==
  Operation("cleanupExpiredContexts", "", [after |-> after, deleted |-> deleted])

\* the time waited in operations 1..k
RECURSIVE Waited(_)
Waited(k) ==
  IF k = 0 THEN 0
  ELSE Waited(k - 1)
         + (IF oplog[k].fn \in {"cleanupExpiredContexts", "getUserContext", "idle"}
            THEN oplog[k].info.after ELSE 0)

\* new Date() in operation k, and in the operation about to be carried out
TimeAt(k) == k + Waited(k)
Now == TimeAt(Len(oplog)) + 1

StoreInit ==
  /\ Started /\ subject = NoSubject /\ verdict = <<>>
  /\ variant \in {"simple", "enhanced"}
  /\ entries = <<>>
  /\ oplog = <<>>
  /\ returned = <<>>
  /\ locks = <<>>
  /\ updates = <<>>

\* getUserContext(userId), called at once or, for a user with a context,
\* after a stretch without a request or a sweep
GetsContext(u, after) ==
  /\ Len(oplog) < MaxOps
  /\ after = 0 \/ u \in DOMAIN entries
  /\ entries' = IF variant = "simple" THEN SimpleGetUserContext(entries, u, Now + after)
              ELSE EnhancedGetUserContext(entries, u, Now + after)
  /\ returned' = <<entries'[u]>>
  /\ oplog' = Append(oplog, Operation("getUserContext", u, [after |-> after]))
  /\ UNCHANGED <<variant, locks, updates, serverVars, filterVars>>

UpdatesContext(u, newContextInfo) ==
  /\ Len(oplog) < MaxOps
  /\ entries' = IF variant = "simple" THEN SimpleUpdateContext(entries, u, newContextInfo, Now)
              ELSE EnhancedUpdateContext(entries, u, newContextInfo, Now)
  /\ returned' = <<entries'[u]>>
  /\ oplog' = Append(oplog, Operation("updateContext", u, newContextInfo))
  /\ UNCHANGED <<variant, locks, updates, serverVars, filterVars>>

ClearsContext(u) ==
  /\ Len(oplog) < MaxOps
  /\ entries' = Delete(entries, u)
  /\ returned' = <<>>
  /\ oplog' = Append(oplog, Operation("clearContext", u, <<>>))
  /\ UNCHANGED <<variant, locks, updates, serverVars, filterVars>>

\* EnhancedContextManager.addMemoryBlock(userId, content)
AddsMemoryBlock(u) ==
  /\ Len(oplog) < MaxOps
  /\ variant = "enhanced"
  /\ entries' = [EnhancedGetUserContext(entries, u, Now) EXCEPT
                   ![u].memoryBlocks = Append(@, [content |-> <<"m">>, metadata |-> [timestamp |-> Now]])]
  /\ returned' = <<>>
  /\ oplog' = Append(oplog, Operation("addMemoryBlock", u, <<>>))
  /\ UNCHANGED <<variant, locks, updates, serverVars, filterVars>>

\* variant of retrieveRelevantMemory that returns the five oldest blocks
retrieveOldestMemory(context) == Take(context.memoryBlocks, 5)

\* _retrieveRelevantMemory(context)
retrieveRelevantMemory(context) ==
  SubSeq(context.memoryBlocks,
         IF Len(context.memoryBlocks) > 5 THEN Len(context.memoryBlocks) - 4 ELSE 1,
         Len(context.memoryBlocks))

\* EnhancedContextManager.generateModelContext(userId): what it returns
generateModelContext(context) ==
  [messages |-> context.messageHistory, entities |-> context.sessionEntities,
   toolState |-> context.toolState, relevantMemory |-> retrieveRelevantMemory(context)]

GeneratesModelContext(u) ==
  /\ Len(oplog) < MaxOps
  /\ variant = "enhanced"
  /\ entries' = EnhancedGetUserContext(entries, u, Now)
  /\ returned' = <<generateModelContext(entries'[u])>>
  /\ oplog' = Append(oplog, Operation("generateModelContext", u, <<>>))
  /\ UNCHANGED <<variant, locks, updates, serverVars, filterVars>>

\* the timer fires after a wait: cleanupExpiredContexts()
Sweeps(after) ==
  /\ Len(oplog) < MaxOps
  /\ entries' = cleanupExpiredContexts(entries, Now + after)
  /\ returned' = <<>>
  /\ oplog' = Append(oplog, Swept(after, Expired(entries, Now + after)))
  /\ UNCHANGED <<variant, locks, updates, serverVars, filterVars>>

StoreNext ==
  \/ \E u \in StoreUsers : \E after \in Arrivals : GetsContext(u, after)
  \/ \E u \in StoreUsers : \E info \in PartialsOf(u, Now) : UpdatesContext(u, info)
  \/ \E u \in StoreUsers : ClearsContext(u)
  \/ \E u \in StoreUsers : AddsMemoryBlock(u)
  \/ \E u \in StoreUsers : GeneratesModelContext(u)
  \/ \E after \in Waits : Sweeps(after)

SpecStore == StoreInit /\ [][StoreNext]_vars


(***************************************************************************)
(* The Redis-backed ContextManager ("redis").  updateContext awaits        *)
(* redlock and Redis, so calls interleave at every await: a call is a      *)
(* process that stands at one of                                           *)
(*   "idle"     not yet made                                               *)
(*   "locking"  awaiting redlock.lock('locks:' + userId, 1000)             *)
(*   "locked"   lock granted, awaiting redis.get(userId)                   *)
(*   "read"     value read, awaiting the redis.set of getUserContext       *)
(*   "got"      context in hand, awaiting the redis.set of updateContext   *)
(*   "written"  context stored, awaiting lock.unlock()                     *)
(*   "done"     returned;  "failed"  rejected, the lock was not granted    *)
(*   "threw"    redis.get or redis.set rejected, awaiting lock.unlock()    *)
(*   "rejected" rejected after a failure of Redis                          *)
(* A caller whose call was rejected may make the call again.               *)
(* entries is the Redis keyspace: userId -> the context as JSON.           *)
(***************************************************************************)
RedisUsers == {"u1", "u2"}

\* the updateContext calls made, concurrently, on the store
RedisCalls == 1..3
RedisCall(c) ==
  CASE c = 1 -> [userId |-> "u1", info |-> [lastQuery |-> <<"X">>]]
    [] c = 2 -> [userId |-> "u1", info |-> [sessionEntities |-> [y |-> 2]]]
    [] c = 3 -> [userId |-> "u2", info |-> [lastQuery |-> <<"Q">>, lastSql |-> <<"S">>]]

\* the time to live asked of redlock for a lock, in milliseconds
lockTimeToLive == 1000

\* a Date as JSON.stringify writes it and JSON.parse leaves it: a string
Date(time) == <<"Date", time>>
IsoString(date) == <<"ISO", date[2]>>
IsDate(value) == value[1] = "Date"

\* JSON.stringify followed by JSON.parse: Dates come back as strings and
\* properties whose value is undefined are dropped
JSONEntry(entry) ==
  [key \in {name \in DOMAIN entry : entry[name] # <<>>} |->
     IF key = "timestamp" /\ IsDate(entry[key]) THEN IsoString(entry[key]) ELSE entry[key]]

JSONRoundTrip(context) ==
  [key \in DOMAIN context |->
     IF key \in {"createdAt", "updatedAt"} /\ IsDate(context[key]) THEN IsoString(context[key])
     ELSE IF key = "queryHistory"
     THEN [k \in DOMAIN context[key] |-> JSONEntry(context[key][k])]
     ELSE context[key]]

\* how far a call has come, in awaits resolved
AwaitsResolved(at) ==
  CASE at = "idle" -> 0 [] at = "locking" -> 0 [] at = "failed" -> 0 [] at = "locked" -> 1
    [] at = "read" -> 2 [] at = "got" -> 3 [] at = "written" -> 4 [] at = "done" -> 5
    [] at = "threw" -> 4 [] at = "rejected" -> 5 [] at = "getting" -> 0 [] at = "gotten" -> 1

\* the awaits of call c resolved: a sweep counts its own
Awaited(c) ==
  IF updates[c].fn = "cleanupExpiredContexts" THEN updates[c].info.awaited
  ELSE AwaitsResolved(updates[c].at)

\* new Date(): the number of the await being resolved, after the time
\* without calls
Rejections(c) == IF updates[c].rejected THEN 1 ELSE 0
RedisNow ==
  Date(1 + Awaited(1) + Awaited(2) + Awaited(3)
         + Rejections(1) + Rejections(2) + Rejections(3) + Waited(Len(oplog)))

RedisInit ==
  /\ Started /\ subject = NoSubject /\ verdict = <<>>
  /\ variant = "redis"
  /\ entries = <<>>
  /\ oplog = <<>>
  /\ returned = <<>>
  /\ locks = <<>>
  /\ updates = [c \in RedisCalls |->
                  [fn |-> "updateContext", userId |-> RedisCall(c).userId, info |-> RedisCall(c).info,
                   at |-> "idle", context |-> <<>>, rejected |-> FALSE]]

\* call c moves on to stand at `at`, holding the contexts `context` (none or
\* one)
Moves(c, at, context) ==
  updates' = [updates EXCEPT ![c].at = at, ![c].context = context]

\* updateContext(userId, newContextInfo) is called: it asks for the lock
CallsUpdateContext(c) ==
  /\ updates[c].fn = "updateContext"
  /\ updates[c].at = "idle"
  /\ Moves(c, "locking", <<>>)
  /\ UNCHANGED <<variant, entries, oplog, returned, locks, serverVars, filterVars>>

\* redlock grants the lock of the user to call c
AcquiresLock(c) ==
  /\ updates[c].at = "locking"
  /\ updates[c].userId \notin DOMAIN locks
  /\ locks' = Put(locks, updates[c].userId, c)
  /\ Moves(c, "locked", <<>>)
  /\ UNCHANGED <<variant, entries, oplog, returned, serverVars, filterVars>>

\* variant of LockRefused in which the call has stored a new context by
\* the time it rejects
LockRefusedAfterStoring(c) ==
  /\ updates[c].at = "locking"
  /\ updates[c].userId \in DOMAIN locks
  /\ entries' = Put(entries, updates[c].userId,
                    JSONRoundTrip(SimpleNewContext(updates[c].userId, RedisNow)))
  /\ updates' = [updates EXCEPT ![c].at = "failed", ![c].rejected = TRUE]
  /\ UNCHANGED <<variant, oplog, returned, locks, serverVars, filterVars>>

\* redlock gives up on a lock another call holds: updateContext rejects
LockRefused(c) ==
  /\ updates[c].at = "locking"
  /\ updates[c].userId \in DOMAIN locks
  /\ updates' = [updates EXCEPT ![c].at = "failed", ![c].rejected = TRUE]
  /\ UNCHANGED <<variant, entries, oplog, returned, locks, serverVars, filterVars>>

\* the caller of a rejected call makes the call again
Retries(c) ==
  /\ updates[c].at = "failed"
  /\ Moves(c, "locking", <<>>)
  /\ UNCHANGED <<variant, entries, oplog, returned, locks, serverVars, filterVars>>

\* the lock of user u reaches the end of its time to live before it is
\* released
LockExpires(u) ==
  /\ u \in DOMAIN locks
  /\ locks' = Delete(locks, u)
  /\ oplog' = Append(oplog, Operation("expire", u, lockTimeToLive))
  /\ UNCHANGED <<variant, entries, returned, updates, serverVars, filterVars>>

\* getUserContext: redis.get(userId) answers
ReadsContext(c) ==
  /\ updates[c].at = "locked"
  /\ Moves(c, "read", IF updates[c].userId \in DOMAIN entries
                      THEN <<entries[updates[c].userId]>> ELSE <<>>)
  /\ UNCHANGED <<variant, entries, oplog, returned, locks, serverVars, filterVars>>

\* getUserContext: a new context, or the one read with a new updatedAt, is
\* stored
TouchesContext(c) ==
  /\ updates[c].at = "read"
  /\ \E context \in {IF Len(updates[c].context) = 0
                     THEN SimpleNewContext(updates[c].userId, RedisNow)
                     ELSE [updates[c].context[1] EXCEPT !.updatedAt = RedisNow]} :
       /\ entries' = Put(entries, updates[c].userId, JSONRoundTrip(context))
       /\ Moves(c, "got", <<context>>)
  /\ UNCHANGED <<variant, oplog, returned, locks, serverVars, filterVars>>

\* updateContext: the context with newContextInfo assigned is stored
WritesContext(c) ==
  /\ updates[c].at = "got"
  /\ \E context \in {SimpleUpdated(Assign(updates[c].context[1], updates[c].info),
                                   updates[c].info, RedisNow)} :
       /\ entries' = Put(entries, updates[c].userId, JSONRoundTrip(context))
       /\ Moves(c, "written", <<context>>)
  /\ UNCHANGED <<variant, oplog, returned, locks, serverVars, filterVars>>

\* finally: lock.unlock() releases the lock if call c still holds it
Unlocks(c) ==
  /\ updates[c].at = "written"
  /\ locks' = IF updates[c].userId \in DOMAIN locks /\ locks[updates[c].userId] = c
              THEN Delete(locks, updates[c].userId) ELSE locks
  /\ returned' = updates[c].context
  /\ Moves(c, "done", updates[c].context)
  /\ UNCHANGED <<variant, entries, oplog, serverVars, filterVars>>

RedisNext ==
  \/ \E c \in RedisCalls : CallsUpdateContext(c)
  \/ \E c \in RedisCalls : AcquiresLock(c)
  \/ \E c \in RedisCalls : LockRefused(c)
  \/ \E c \in RedisCalls : Retries(c)
  \/ \E u \in RedisUsers : LockExpires(u)
  \/ \E c \in RedisCalls : ReadsContext(c)
  \/ \E c \in RedisCalls : TouchesContext(c)
  \/ \E c \in RedisCalls : WritesContext(c)
  \/ \E c \in RedisCalls : Unlocks(c)

SpecRedis == RedisInit /\ [][RedisNext]_vars

(***************************************************************************)
(* The calls of the Redis-backed ContextManager side by side: an           *)
(* updateContext, a second call that is a getUserContext or another        *)
(* updateContext, and the cleanupExpiredContexts of the timer, all on one  *)
(* user.  Redis may reject a command; a call made on its own stands at     *)
(*   "getting"  getUserContext awaiting redis.get(userId)                  *)
(*   "gotten"   value read, awaiting redis.set                             *)
(*   "listing"  the sweep awaiting redis.keys('*')                         *)
(*   "scanning" the sweep awaiting redis.get of the first key left         *)
(*   "deleting" the sweep awaiting redis.del of the first key left         *)
(* The keys of redlock ('locks:...') that keys('*') lists too hold no JSON *)
(* context: JSON.parse or the read of updatedAt fails on them and the      *)
(* sweep goes on, so they are left out of the keys.                        *)
(***************************************************************************)
SecondCalls == {"getUserContext", "updateContext"}

CallsInit ==
  /\ Started /\ subject = NoSubject /\ verdict = <<>>
  /\ variant = "redis"
  /\ entries = <<>>
  /\ oplog = <<>>
  /\ returned = <<>>
  /\ locks = <<>>
  /\ \E second \in SecondCalls :
       updates = [c \in RedisCalls |->
         CASE c = 1 -> [fn |-> "updateContext", userId |-> "u1", info |-> [lastQuery |-> <<"X">>],
                        at |-> "idle", context |-> <<>>, rejected |-> FALSE]
           [] c = 2 -> [fn |-> second, userId |-> "u1", info |-> [sessionEntities |-> [y |-> 2]],
                        at |-> "idle", context |-> <<>>, rejected |-> FALSE]
           [] c = 3 -> [fn |-> "cleanupExpiredContexts", userId |-> "",
                        info |-> [now |-> Date(0), keys |-> <<>>, awaited |-> 0],
                        at |-> "idle", context |-> <<>>, rejected |-> FALSE]]

\* variant of UnlocksAfterFailure in which the call rejects with the lock
\* in place
RejectsLocked(c) ==
  /\ updates[c].at = "threw"
  /\ updates' = [updates EXCEPT ![c].at = "rejected", ![c].rejected = TRUE]
  /\ UNCHANGED <<variant, entries, oplog, returned, locks, serverVars, filterVars>>

\* redis.get or redis.set rejects inside updateContext: getUserContext
\* throws, or the set of line 66 does, and control passes to finally
CommandFails(c) ==
  /\ updates[c].at \in {"locked", "read", "got"}
  /\ Moves(c, "threw", <<>>)
  /\ UNCHANGED <<variant, entries, oplog, returned, locks, serverVars, filterVars>>

\* finally: lock.unlock() after a failure, and updateContext rejects
UnlocksAfterFailure(c) ==
  /\ updates[c].at = "threw"
  /\ locks' = IF updates[c].userId \in DOMAIN locks /\ locks[updates[c].userId] = c
              THEN Delete(locks, updates[c].userId) ELSE locks
  /\ updates' = [updates EXCEPT ![c].at = "rejected", ![c].rejected = TRUE]
  /\ UNCHANGED <<variant, entries, oplog, returned, serverVars, filterVars>>

\* getUserContext(userId) is called on its own
CallsGetUserContext(c) ==
  /\ updates[c].fn = "getUserContext"
  /\ updates[c].at = "idle"
  /\ Moves(c, "getting", <<>>)
  /\ UNCHANGED <<variant, entries, oplog, returned, locks, serverVars, filterVars>>

\* redis.get(userId) answers
GetReads(c) ==
  /\ updates[c].at = "getting"
  /\ Moves(c, "gotten", IF updates[c].userId \in DOMAIN entries
                        THEN <<entries[updates[c].userId]>> ELSE <<>>)
  /\ UNCHANGED <<variant, entries, oplog, returned, locks, serverVars, filterVars>>

\* a new context, or the one read with a new updatedAt, is stored and
\* returned
GetStores(c) ==
  /\ updates[c].at = "gotten"
  /\ \E context \in {IF Len(updates[c].context) = 0
                     THEN SimpleNewContext(updates[c].userId, RedisNow)
                     ELSE [updates[c].context[1] EXCEPT !.updatedAt = RedisNow]} :
       /\ entries' = Put(entries, updates[c].userId, JSONRoundTrip(context))
       /\ returned' = <<context>>
       /\ Moves(c, "done", <<context>>)
  /\ UNCHANGED <<variant, oplog, locks, serverVars, filterVars>>

\* redis.get or redis.set rejects: 'Failed to retrieve user context'
GetFails(c) ==
  /\ updates[c].at \in {"getting", "gotten"}
  /\ updates' = [updates EXCEPT ![c].at = "rejected", ![c].rejected = TRUE]
  /\ UNCHANGED <<variant, entries, oplog, returned, locks, serverVars, filterVars>>

\* the sweep goes to `at` with the keys `keys` left, one more await resolved
SweepMoves(c, at, keys) ==
  updates' = [updates EXCEPT ![c].at = IF at = "scanning" /\ keys = <<>> THEN "done" ELSE at,
                             ![c].info.keys = keys,
                             ![c].info.awaited = @ + 1]

\* the timer fires: cleanupExpiredContexts() takes the time and asks for the
\* keys
StartsSweep(c) ==
  /\ updates[c].fn = "cleanupExpiredContexts"
  /\ updates[c].at = "idle"
  /\ updates' = [updates EXCEPT ![c].at = "listing", ![c].info.now = RedisNow]
  /\ UNCHANGED <<variant, entries, oplog, returned, locks, serverVars, filterVars>>

\* redis.keys('*') answers
SweepLists(c) ==
  /\ updates[c].at = "listing"
  /\ \E keys \in {IF "u1" \in DOMAIN entries THEN <<"u1">> ELSE <<>>} :
       SweepMoves(c, "scanning", keys)
  /\ UNCHANGED <<variant, entries, oplog, returned, locks, serverVars, filterVars>>

\* redis.get(key) answers: the sweep goes on to delete a context it finds
\* older than the expiration time, and to the next key otherwise
SweepReads(c) ==
  /\ updates[c].at = "scanning"
  /\ LET key == Head(updates[c].info.keys)
     IN IF /\ key \in DOMAIN entries
           /\ updates[c].info.now[2] - entries[key].updatedAt[2] > expirationTime
        THEN SweepMoves(c, "deleting", updates[c].info.keys)
        ELSE SweepMoves(c, "scanning", Tail(updates[c].info.keys))
  /\ UNCHANGED <<variant, entries, oplog, returned, locks, serverVars, filterVars>>

\* redis.del(key) answers
SweepDeletes(c) ==
  /\ updates[c].at = "deleting"
  /\ entries' = Delete(entries, Head(updates[c].info.keys))
  /\ SweepMoves(c, "scanning", Tail(updates[c].info.keys))
  /\ UNCHANGED <<variant, oplog, returned, locks, serverVars, filterVars>>

\* redis.get or redis.del rejects: the error is logged and the sweep goes on
SweepSkips(c) ==
  /\ updates[c].at \in {"scanning", "deleting"}
  /\ SweepMoves(c, "scanning", Tail(updates[c].info.keys))
  /\ UNCHANGED <<variant, entries, oplog, returned, locks, serverVars, filterVars>>

\* the stretches without a call in a behaviour
MaxIdles == 1
Idled == {k \in DOMAIN oplog : oplog[k].fn = "idle"}

\* no call is under way and none is made for the time `after`
NoCallUnderWay == \A c \in RedisCalls : updates[c].at \in {"idle", "done", "failed", "rejected"}
RedisIdles(after) ==
  /\ NoCallUnderWay
  /\ Cardinality(Idled) < MaxIdles
  /\ entries # <<>>
  /\ oplog' = Append(oplog, Operation("idle", "", [after |-> after]))
  /\ UNCHANGED <<variant, entries, returned, locks, updates, serverVars, filterVars>>

\* the pending await of call c settles
Settles(c) ==
  \/ AcquiresLock(c)
  \/ LockRefused(c)
  \/ ReadsContext(c)
  \/ TouchesContext(c)
  \/ WritesContext(c)
  \/ CommandFails(c)
  \/ Unlocks(c)
  \/ UnlocksAfterFailure(c)
  \/ GetReads(c)
  \/ GetStores(c)
  \/ GetFails(c)
  \/ SweepLists(c)
  \/ SweepReads(c)
  \/ SweepDeletes(c)
  \/ SweepSkips(c)

CallsNext ==
  \/ \E c \in RedisCalls : CallsUpdateContext(c)
  \/ \E c \in RedisCalls : CallsGetUserContext(c)
  \/ \E c \in RedisCalls : StartsSweep(c)
  \/ \E c \in RedisCalls : Retries(c)
  \/ \E c \in RedisCalls : Settles(c)
  \/ \E u \in RedisUsers : LockExpires(u)
  \/ RedisIdles(IdleTime)

SpecRedisCalls == CallsInit /\ [][CallsNext]_vars

\* Redis and redlock answer every command, with a result or an error, and
\* the event loop resumes the call that awaits the answer
FairSpecRedisCalls == SpecRedisCalls /\ \A c \in RedisCalls : WF_vars(Settles(c))



(***************************************************************************)
(* The ToolRegistry (toolRegistry.js) on its own ("registry").  entries is *)
(* this.tools: a Map keeps its keys in the order they were set, so it is   *)
(* the sequence of the tools registered.  returned holds what the last     *)
(* call did: the value it returned or the error it threw, and the handlers *)
(* it invoked.                                                             *)
(***************************************************************************)
ToolNames == {"sql_generator", "sql_executor", "export"}

\* the toolSpecs passed to registerTool: with and without a description and
\* parameters, and one without a handler
ToolSpecs == {
  [description |-> <<"G","e","n","e","r","a","t","e">>, parameters |-> [query |-> <<"s","t","r","i","n","g">>], execute |-> "generate"],
  [description |-> <<"E","x","e","c","u","t","e">>, execute |-> "execute"],
  [execute |-> "other"],
  [description |-> <<"N","o","t","h","i","n","g">>] }

\* the params passed to executeTool
ToolParams == {[query |-> <<"q">>], [sql |-> <<"S">>]}

\* what a handler does when it is invoked: it resolves to a value or rejects
HandlerOutcomes == {[ok |-> TRUE, value |-> <<"r","o","w","s">>], [ok |-> FALSE, value |-> <<"b","o","o","m">>]}

\* this.tools.has(toolName), this.tools.get(toolName)
Has(tools, toolName) == \E k \in DOMAIN tools : tools[k].name = toolName
Get(tools, toolName) == tools[CHOOSE k \in DOMAIN tools : tools[k].name = toolName]

AlreadyExists(toolName) == <<"Tool with name", toolName, "already exists">>
NotAFunction == <<"tool.execute is not a function">>

\* a || b on a property that may be missing
OrElse(object, property, default) ==
  IF property \in DOMAIN object /\ object[property] # <<>> THEN object[property] ELSE default

\* the tool registerTool sets
Descriptor(toolName, toolSpec) ==
  [name |-> toolName,
   description |-> OrElse(toolSpec, "description", <<>>),
   parameters |-> OrElse(toolSpec, "parameters", <<>>),
   execute |-> IF "execute" \in DOMAIN toolSpec THEN toolSpec.execute ELSE "undefined"]

\* variant of registerTool that sets the tool whether or not the name is
\* taken
registerToolOverwriting(tools, toolName, toolSpec) ==
  [tools |-> IF Has(tools, toolName)
             THEN [k \in DOMAIN tools |->
                     IF tools[k].name = toolName THEN Descriptor(toolName, toolSpec) ELSE tools[k]]
             ELSE Append(tools, Descriptor(toolName, toolSpec)),
   threw |-> FALSE, value |-> <<"this">>, invoked |-> <<>>]

\* registerTool(toolName, toolSpec): this.tools after the call and what the
\* call did
registerTool(tools, toolName, toolSpec) ==
  IF Has(tools, toolName)
  THEN [tools |-> tools, threw |-> TRUE, value |-> AlreadyExists(toolName), invoked |-> <<>>]
  ELSE [tools |-> Append(tools, Descriptor(toolName, toolSpec)),
        threw |-> FALSE, value |-> <<"this">>, invoked |-> <<>>]

\* getTool(toolName)
getTool(tools, toolName) ==
  IF ~Has(tools, toolName)
  THEN [tools |-> tools, threw |-> TRUE, value |-> ToolNotFound(toolName), invoked |-> <<>>]
  ELSE [tools |-> tools, threw |-> FALSE, value |-> Get(tools, toolName), invoked |-> <<>>]

\* listTools()
listTools(tools) ==
  [tools |-> tools, threw |-> FALSE,
   value |-> [k \in DOMAIN tools |->
                [name |-> tools[k].name, description |-> tools[k].description,
                 parameters |-> tools[k].parameters]],
   invoked |-> <<>>]

\* tool.execute(params, context) where the handler does `outcome`
Invocation(tool, params, outcome) ==
  [handler |-> tool.execute, params |-> params, outcome |-> outcome]

\* variant of registryExecuteTool that invokes the handler again when it
\* rejects
executeToolRetrying(tools, toolName, params, outcome) ==
  LET found == getTool(tools, toolName)
  IN IF found.threw THEN found
     ELSE IF found.value.execute = "undefined"
     THEN [tools |-> tools, threw |-> TRUE, value |-> NotAFunction, invoked |-> <<>>]
     ELSE [tools |-> tools, threw |-> ~outcome.ok, value |-> outcome.value,
           invoked |-> IF outcome.ok THEN <<Invocation(found.value, params, outcome)>>
                       ELSE <<Invocation(found.value, params, outcome),
                              Invocation(found.value, params, outcome)>>]

\* executeTool(toolName, params, context) where the handler, if it is
\* invoked, does `outcome`
registryExecuteTool(tools, toolName, params, outcome) ==
  LET found == getTool(tools, toolName)
  IN IF found.threw THEN found
     ELSE IF found.value.execute = "undefined"
     THEN [tools |-> tools, threw |-> TRUE, value |-> NotAFunction, invoked |-> <<>>]
     ELSE [tools |-> tools, threw |-> ~outcome.ok, value |-> outcome.value,
           invoked |-> <<Invocation(found.value, params, outcome)>>]

RegistryInit ==
  /\ Started /\ subject = NoSubject /\ verdict = <<>>
  /\ variant = "registry"
  /\ entries = <<>>
  /\ oplog = <<>>
  /\ returned = <<>>
  /\ locks = <<>>
  /\ updates = <<>>

\* the call fn(args) did `did`
Does(fn, args, did) ==
  /\ entries' = did.tools
  /\ returned' = <<[fn |-> fn, args |-> args, threw |-> did.threw, value |-> did.value,
                    invoked |-> did.invoked]>>
  /\ UNCHANGED <<variant, oplog, locks, updates, serverVars, filterVars>>

RegistersTool(toolName, toolSpec) ==
  Does("registerTool", <<toolName, toolSpec>>, registerTool(entries, toolName, toolSpec))

GetsTool(toolName) == Does("getTool", <<toolName>>, getTool(entries, toolName))

ListsTools == Does("listTools", <<>>, listTools(entries))

ExecutesTool(toolName, params, outcome) ==
  Does("executeTool", <<toolName, params>>, registryExecuteTool(entries, toolName, params, outcome))

RegistryNext ==
  \/ \E toolName \in ToolNames, toolSpec \in ToolSpecs : RegistersTool(toolName, toolSpec)
  \/ \E toolName \in ToolNames : GetsTool(toolName)
  \/ ListsTools
  \/ \E toolName \in ToolNames, params \in ToolParams, outcome \in HandlerOutcomes :
       ExecutesTool(toolName, params, outcome)

SpecRegistry == RegistryInit /\ [][RegistryNext]_vars


(***************************************************************************)
(* Properties.  Those of the server are stated of Spec, those of the       *)
(* filters of SpecFilter.                                                  *)
(***************************************************************************)
LastMessage == req.messages[Len(req.messages)]

\* the request in flight, or the last one handled, is a chat turn whose
\* last message carries text and no tool calls
ChatTextTurn ==
  req.route = "chat" /\ req.messages # <<>> /\ Len(LastMessage.tool_calls) = 0

\* the turn has been answered with a security alert of this type
BlockedAs(type) ==
  /\ resp # <<>>
  /\ resp[1].status = 200
  /\ "metadata" \in DOMAIN resp[1].body.message
  /\ "security_alert" \in DOMAIN resp[1].body.message.metadata
  /\ resp[1].body.message.metadata.security_alert.type = type

Invoked(fn) == \E k \in DOMAIN calls : calls[k].fn = fn

\* C1: in a natural-language turn a stage runs only when its predecessor has
\* finished: the translator is called right after validateNaturalLanguageInput
\* has accepted, validateSql runs right after the translator's answer has
\* arrived, assessSensitiveDataRequest right after validateSql has accepted,
\* and executeQuery on the SQL the translator generated right after the
\* assessment has let it pass.
C1_StagesInOrder ==
  ChatTextTurn =>
    \A k \in DOMAIN calls :
      /\ calls[k].fn = "sendMessage" =>
           k > 1 /\ calls[k - 1].fn = "validateNaturalLanguageInput" /\ calls[k - 1].ok
      /\ calls[k].fn = "response" =>
           k > 1 /\ calls[k - 1].fn = "sendMessage"
      /\ calls[k].fn = "validateSql" =>
           k > 1 /\ calls[k - 1].fn = "response" /\ calls[k - 1].arg = calls[k].arg
      /\ calls[k].fn = "assessSensitiveDataRequest" =>
           k > 1 /\ calls[k - 1].fn = "validateSql" /\ calls[k - 1].ok
      /\ (calls[k].fn = "executeQuery" /\ Invoked("response")) =>
           /\ k > 1 /\ calls[k - 1].fn = "assessSensitiveDataRequest" /\ calls[k - 1].ok
           /\ calls[k - 1].arg = calls[k].arg

\* a turn that has gone through every stage and is executing its query
C1_TurnReachesExecution ==
  /\ ChatTextTurn
  /\ pc = "executing"
  /\ [k \in DOMAIN calls |-> calls[k].fn] =
       <<"validateNaturalLanguageInput", "sendMessage", "response", "validateSql",
         "assessSensitiveDataRequest", "executeQuery">>

\* C2: a chat turn without tool calls whose text validateNaturalLanguageInput
\* rejects invokes neither the translator nor the executor, and is answered
\* with a security alert of type input_validation.
C2_RejectedInputBlocked ==
  (ChatTextTurn /\ ~validateNaturalLanguageInput(LastMessage.content).isValid) =>
    /\ ~Invoked("sendMessage")
    /\ ~Invoked("executeQuery")
    /\ resp # <<>> => BlockedAs("input_validation")

\* what processNaturalLanguage has returned is a block of this type, with no
\* SQL, the turn is answered with that alert, and the executor is not invoked
TurnBlocked(type) ==
  /\ nl # <<>>
  /\ nl[1].intent = "SECURITY_BLOCKED"
  /\ nl[1].securityAlert.type = type
  /\ nl[1].sqlQuery = <<>>
  /\ BlockedAs(type)
  /\ ~Invoked("executeQuery")

\* C3: a turn in which validateSql rejects the generated SQL ends blocked as
\* sql_validation, one in which assessSensitiveDataRequest finds it sensitive
\* and not legitimate ends blocked as sensitive_data_access; either returns
\* no sqlQuery and never invokes executeQuery.
C3_RejectedSqlBlocked ==
  ChatTextTurn =>
    \A k \in DOMAIN calls :
      (calls[k].fn = "response" /\ calls[k].arg # <<>>) =>
        /\ ~validateSql(calls[k].arg).isValid => TurnBlocked("sql_validation")
        /\ ( /\ validateSql(calls[k].arg).isValid
             /\ assessSensitiveDataRequest(LastMessage.content, calls[k].arg).isSensitive
             /\ ~assessSensitiveDataRequest(LastMessage.content, calls[k].arg).isLegitimate )
             => TurnBlocked("sensitive_data_access")

\* a turn whose SQL passed validateSql and was blocked by the assessment
C3_TurnBlockedBySensitivity ==
  /\ ChatTextTurn
  /\ \E k \in DOMAIN calls :
       /\ calls[k].fn = "assessSensitiveDataRequest" /\ ~calls[k].ok
       /\ validateSql(calls[k].arg).isValid
  /\ TurnBlocked("sensitive_data_access")

\* C4: the SQL a sql_executor invocation hands to executeQuery has been
\* accepted by validateSql before, in a chat turn's tool call and on the
\* tool route alike.
C4_ExecutorSqlValidated ==
  \A k \in DOMAIN calls :
    ( /\ calls[k].fn = "executeQuery"
      /\ calls[k].who \in DOMAIN runs
      /\ runs[calls[k].who].name = "sql_executor" ) =>
      \E j \in 1..(k - 1) :
        /\ calls[j].fn = "validateSql"
        /\ calls[j].who = calls[k].who
        /\ calls[j].arg = calls[k].arg
        /\ calls[j].ok

\* a quote or a semicolon with "--" somewhere after it
CommentTermination(text) ==
  \E i \in DOMAIN text, j \in DOMAIN text :
    i < j /\ text[i] \in {"'", ";"} /\ LitAt(<<"-","-">>, text, j)

\* C5: an input that holds a quote or semicolon followed later by "--" is
\* rejected by validateNaturalLanguageInput with severity high, and the turn
\* that carries it is blocked as input_validation with severity high.
C5_CommentTerminationBlocked ==
  (ChatTextTurn /\ CommentTermination(LastMessage.content)) =>
    /\ ~validateNaturalLanguageInput(LastMessage.content).isValid
    /\ validateNaturalLanguageInput(LastMessage.content).severity = "high"
    /\ resp # <<>> =>
         /\ BlockedAs("input_validation")
         /\ resp[1].body.message.metadata.security_alert.severity = "high"

\* the filter alone: every such input is rejected with severity high
CommentTerminationRejected ==
  ( /\ subject.fn = "validateNaturalLanguageInput"
    /\ verdict # <<>>
    /\ CommentTermination(subject.query) ) =>
    ~verdict[1].isValid /\ verdict[1].severity = "high"

StartsWith(s, lit) == Len(lit) <= Len(s) /\ LitAt(lit, s, 1)
EndsWith(s, lit) == Len(lit) <= Len(s) /\ LitAt(lit, s, Len(s) - Len(lit) + 1)

\* w, in any letter case, stands in s with no word character on either side
ContainsWholeWord(s, w) ==
  \E i \in 1..(Len(s) - Len(w) + 1) :
    /\ toLowerCase(Slice(s, i, i + Len(w))) = w
    /\ ~(i > 1 /\ s[i - 1] \in WordChars)
    /\ ~(i + Len(w) <= Len(s) /\ s[i + Len(w)] \in WordChars)

\* SELECT ... FROM INFORMATION_SCHEMA.TABLES or ....COLUMNS, in any case
SchemaSelect(s) ==
  /\ StartsWith(toLowerCase(s), <<"s","e","l","e","c","t"," ">>)
  /\ \/ EndsWith(toLowerCase(s), <<" ","f","r","o","m"," ","i","n","f","o","r","m","a","t","i","o","n","_","s","c","h","e","m","a",".","t","a","b","l","e","s">>)
     \/ EndsWith(toLowerCase(s), <<" ","f","r","o","m"," ","i","n","f","o","r","m","a","t","i","o","n","_","s","c","h","e","m","a",".","c","o","l","u","m","n","s">>)

\* nothing else in s that validateSql objects to: no other dangerous
\* operation, no semicolon, no UNION
NothingElseAmiss(s) ==
  /\ \A k \in DOMAIN DANGEROUS_OPERATIONS :
       DANGEROUS_OPERATIONS[k].name # "INFORMATION_SCHEMA"
         => ~ContainsWholeWord(s, DANGEROUS_OPERATIONS[k].w)
  /\ ~includes(s, <<";">>)
  /\ ~includes(toLowerCase(s), <<"u","n","i","o","n">>)

\* C6: validateSql accepts a SELECT ... FROM INFORMATION_SCHEMA.TABLES or
\* ....COLUMNS statement that has no other violation, with a warning of
\* severity low.
C6_SchemaSelectAccepted ==
  ( /\ subject.fn = "validateSql"
    /\ verdict # <<>>
    /\ SchemaSelect(subject.sql)
    /\ NothingElseAmiss(subject.sql) ) =>
    /\ verdict[1].isValid
    /\ "warning" \in DOMAIN verdict[1]
    /\ verdict[1].severity = "low"

\* the operations the rule names, in lower case
NamedOperations == {
  <<"d","r","o","p">>, <<"d","e","l","e","t","e">>, <<"t","r","u","n","c","a","t","e">>, <<"u","p","d","a","t","e">>, <<"i","n","s","e","r","t">>, <<"a","l","t","e","r">>, <<"g","r","a","n","t">>, <<"r","e","v","o","k","e">>, <<"e","x","e","c">>, <<"e","x","e","c","u","t","e">> }

\* C7: validateSql rejects every SQL text in which DROP, DELETE, TRUNCATE,
\* UPDATE, INSERT, ALTER, GRANT, REVOKE, EXEC or EXECUTE stands as a whole
\* word, in any letter case and at any position.
C7_NamedOperationRejected ==
  ( /\ subject.fn = "validateSql"
    /\ verdict # <<>>
    /\ \E w \in NamedOperations : ContainsWholeWord(subject.sql, w) ) =>
    ~verdict[1].isValid

\* a mixed-case operation between a comma and a space, rejected
C7_MixedCaseWordRejected ==
  /\ subject.fn = "validateSql"
  /\ subject.sql = <<",","R","e","v","o","k","e"," ">>
  /\ verdict # <<>>
  /\ ~verdict[1].isValid

\* the first position from which lit stands in s, at or after from (0: none)
IndexOf(s, lit, from) ==
  IF \E i \in from..(Len(s) - Len(lit) + 1) : LitAt(lit, s, i)
  THEN CHOOSE i \in from..(Len(s) - Len(lit) + 1) :
         LitAt(lit, s, i) /\ \A j \in from..(i - 1) : ~LitAt(lit, s, j)
  ELSE 0

\* the number of comma-separated expressions between the first SELECT of s
\* and the FROM that follows it (0: s has no such pair)
ExpressionCount(s) ==
  LET sel == IndexOf(s, <<"s","e","l","e","c","t">>, 1)
      frm == IF sel = 0 THEN 0 ELSE IndexOf(s, <<"f","r","o","m">>, sel + Len(<<"s","e","l","e","c","t">>))
  IN IF frm = 0 THEN 0
     ELSE 1 + Cardinality({k \in (sel + Len(<<"s","e","l","e","c","t">>))..(frm - 1) : s[k] = ","})

\* the two sides of the first UNION of s, lower-cased: before the word, and
\* from the word on
LeftSide(s) == Slice(toLowerCase(s), 1, IndexOf(toLowerCase(s), <<"u","n","i","o","n">>, 1))
RightSide(s) == Slice(toLowerCase(s), IndexOf(toLowerCase(s), <<"u","n","i","o","n">>, 1), Len(s) + 1)

\* C8: validateSql rejects a UNION SELECT or UNION ALL SELECT statement whose
\* two sides list different numbers of comma-separated expressions between
\* SELECT and FROM.
C8_UnevenUnionRejected ==
  ( /\ subject.fn = "validateSql"
    /\ verdict # <<>>
    /\ Test(UnionSelect, subject.sql, TRUE)
    /\ ExpressionCount(LeftSide(subject.sql)) > 0
    /\ ExpressionCount(RightSide(subject.sql)) > 0
    /\ ExpressionCount(LeftSide(subject.sql)) # ExpressionCount(RightSide(subject.sql)) ) =>
    ~verdict[1].isValid

\* a how-many question about password changes
HowManyPasswordChanges(q) ==
  /\ includes(toLowerCase(q), <<"h","o","w"," ","m","a","n","y">>)
  /\ includes(toLowerCase(q), <<"c","h","a","n","g">>)
  /\ includes(toLowerCase(q), <<"p","a","s","s","w","o","r","d">>)

\* C9: when assessSensitiveDataRequest finds the request sensitive,
\* isLegitimate is true exactly when the query matches a legitimacy pattern,
\* and is the same for every other sensitive SQL with the same query; a
\* how-many question about password changes with SQL on a password column
\* is sensitive and legitimate.
C9_LegitimacyFromQueryAlone ==
  (subject.fn = "assessSensitiveDataRequest" /\ verdict # <<>>) =>
    /\ verdict[1].isSensitive =>
         /\ verdict[1].isLegitimate = MatchesLegitimate(subject.query)
         /\ \A s \in AssessSqls :
              assessSensitiveDataRequest(subject.query, s).isSensitive =>
                assessSensitiveDataRequest(subject.query, s).isLegitimate = verdict[1].isLegitimate
    /\ (HowManyPasswordChanges(subject.query) /\ includes(toLowerCase(subject.sql), <<"p","a","s","s","w","o","r","d">>)) =>
         verdict[1].isSensitive /\ verdict[1].isLegitimate

\* the how-many question assessed with SQL that reads the password column
C9_HowManyQuestionLegitimate ==
  /\ subject.fn = "assessSensitiveDataRequest"
  /\ subject.query = <<"h","o","w"," ","m","a","n","y"," ","u","s","e","r","s"," ","c","h","a","n","g","e","d"," ","p","a","s","s","w","o","r","d">>
  /\ subject.sql = <<"S","E","L","E","C","T"," ","p","a","s","s","w","o","r","d"," ","F","R","O","M"," ","u","s","e","r","s">>
  /\ verdict # <<>>
  /\ verdict[1].isSensitive
  /\ verdict[1].isLegitimate

\* the validator verifyToolCallSafety consults for a tool call
SafetyVerdict(call) ==
  IF call.name = "sql_generator"
  THEN validateNaturalLanguageInput(call.parameters.query)
  ELSE validateSql(call.parameters.sql)

\* C10: what the caller receives for a blocked request is the same as for
\* any other request blocked in the same category with the same severity:
\* the message of a chat turn blocked at its input, and the per-call error
\* of a tool call that failed verification.
C10_BlockedResponsesAlike ==
  /\ (ChatTextTurn /\ BlockedAs("input_validation")) =>
       \A t \in ChatTexts :
         ( /\ ~isSchemaQuery(t)
           /\ ~validateNaturalLanguageInput(t).isValid
           /\ validateNaturalLanguageInput(t).severity
                = resp[1].body.message.metadata.security_alert.severity ) =>
           resp[1].body.message = SecurityBlockResponse(pnlStart(0, t).value)
  /\ ( /\ req.route = "chat" /\ req.messages # <<>> /\ Len(LastMessage.tool_calls) > 0
       /\ resp # <<>>
       /\ "tool_call_results" \in DOMAIN resp[1].body.message ) =>
       \A i \in DOMAIN LastMessage.tool_calls, other \in DirectCalls :
         ( /\ LastMessage.tool_calls[i].name \in {"sql_generator", "sql_executor"}
           /\ LastMessage.tool_calls[i].parameters.given
           /\ other.parameters.given
           /\ other.name = LastMessage.tool_calls[i].name
           /\ ~verifyToolCallSafety(LastMessage.tool_calls[i].name,
                                    LastMessage.tool_calls[i].parameters).valid
           /\ ~verifyToolCallSafety(other.name, other.parameters).valid
           /\ SafetyVerdict(other).severity = SafetyVerdict(LastMessage.tool_calls[i]).severity ) =>
           resp[1].body.message.tool_call_results[i].error
             = verifyToolCallSafety(other.name, other.parameters).reason

\* the request in flight, or the last one handled, is a chat turn whose
\* last message carries tool calls
ToolCallTurn ==
  req.route = "chat" /\ req.messages # <<>> /\ Len(LastMessage.tool_calls) > 0

\* the turn has been answered with a list of per-call results
AnsweredWithResults ==
  /\ resp # <<>>
  /\ resp[1].status = 200
  /\ "tool_call_results" \in DOMAIN resp[1].body.message

\* tool call i of the turn failed: it carries no parameters, names no
\* registered tool, was rejected by its validator, or its handler threw
CallFailed(i) ==
  \/ ~LastMessage.tool_calls[i].parameters.given
  \/ LastMessage.tool_calls[i].name \notin RegisteredTools
  \/ ~verifyToolCallSafety(LastMessage.tool_calls[i].name, LastMessage.tool_calls[i].parameters).valid
  \/ runs[i].st = "settled" /\ ~runs[i].out[1].ok

\* C11: in an answered turn with tool calls every call has its own entry in
\* tool_call_results: a call that failed has an error entry, and a call that
\* did not fail has a success entry with its handler's result, whatever
\* became of the other calls of the turn.
C11_CallFailureIsolated ==
  (ToolCallTurn /\ resp # <<>>) =>
    /\ AnsweredWithResults
    /\ \A i \in DOMAIN LastMessage.tool_calls :
         /\ i \in DOMAIN resp[1].body.message.tool_call_results
         /\ resp[1].body.message.tool_call_results[i].tool_call_id = LastMessage.tool_calls[i].id
         /\ IF CallFailed(i)
            THEN /\ ~resp[1].body.message.tool_call_results[i].success
                 /\ "error" \in DOMAIN resp[1].body.message.tool_call_results[i]
            ELSE /\ resp[1].body.message.tool_call_results[i].success
                 /\ resp[1].body.message.tool_call_results[i].result = runs[i].out[1].value

\* C12: a turn with tool calls is answered only once every call has
\* settled, and then tool_call_results has as many entries as tool_calls,
\* entry i carrying the id and the name of tool_calls[i].
C12_AnsweredWhenAllSettled ==
  (ToolCallTurn /\ resp # <<>>) =>
    /\ \A i \in DOMAIN runs : runs[i].st = "settled"
    /\ AnsweredWithResults
    /\ Len(resp[1].body.message.tool_call_results) = Len(LastMessage.tool_calls)
    /\ \A i \in DOMAIN LastMessage.tool_calls :
         /\ resp[1].body.message.tool_call_results[i].tool_call_id = LastMessage.tool_calls[i].id
         /\ resp[1].body.message.tool_call_results[i].name = LastMessage.tool_calls[i].name

\* every call of the turn carries parameters
WellFormedCalls ==
  \A i \in DOMAIN LastMessage.tool_calls : LastMessage.tool_calls[i].parameters.given

\* for turns whose calls all carry parameters the two properties above hold
WellFormedCallsIsolated ==
  (ToolCallTurn /\ WellFormedCalls) => (C11_CallFailureIsolated /\ C12_AnsweredWhenAllSettled)

\* the chat turn has been answered
TurnAnswered == req.route = "chat" /\ resp # <<>> /\ resp[1].status = 200

\* the context of the turn's user holds everything a turn writes: the turn's
\* messages at the end of messageHistory, its text as lastQuery, and a lastSql
\* and lastResult
HoldsTurnUpdates ==
  /\ req.userId \in DOMAIN contexts
  /\ EndsWith(contexts[req.userId].messageHistory, req.messages)
  /\ contexts[req.userId].lastQuery = UserMessage
  /\ contexts[req.userId].lastSql # <<>>
  /\ contexts[req.userId].lastResult # <<>>

\* C15: after the first chat turn the server answers, whose user had no
\* context before it, the user's context either holds all of the turn's
\* updates (lastQuery, lastSql, lastResult and the appended messageHistory)
\* or is as it was before the turn: there is none.
C15_NoPartialUpdate ==
  (served = 1 /\ ChatTextTurn /\ TurnAnswered) =>
    (HoldsTurnUpdates \/ req.userId \notin DOMAIN contexts)

\* the assistant message is an error report: it carries the error's message
\* and no security alert
ErrorReport(message) ==
  /\ "metadata" \in DOMAIN message
  /\ "error" \in DOMAIN message.metadata
  /\ message.metadata.error # <<>>
  /\ "security_alert" \notin DOMAIN message.metadata

\* a step in which the translator throws, the executor throws, or the
\* translator's answer carries no sqlQuery
FailureStep ==
  \/ TranslatorFails
  \/ QueryFails
  \/ SchemaQueryFails
  \/ \E p \in ParsedResults : p.sqlQuery = <<>> /\ TranslatorResponds(p)

\* lastQuery, lastSql and lastResult of user u (<<>>: undefined, as they are
\* for a user without context)
LastTurn(store, u) ==
  IF u \in DOMAIN store
  THEN <<store[u].lastQuery, store[u].lastSql, store[u].lastResult>>
  ELSE <<<<>>, <<>>, <<>>>>

\* C16: a step in which the translator or the executor throws, or no
\* sqlQuery was generated, answers the turn with an error report (an error
\* message, no security_alert) and leaves lastQuery, lastSql and lastResult
\* of the user as they were.
C16_FailureEndsInError ==
  [][FailureStep =>
       /\ resp' # <<>>
       /\ resp'[1].status = 200
       /\ ErrorReport(resp'[1].body.message)
       /\ LastTurn(contexts', req.userId) = LastTurn(contexts, req.userId)]_vars

\* a turn answered with an error report after an earlier turn of the same
\* user had stored its query, SQL and result, which are still there
C16_ErrorAfterStoredTurn ==
  /\ served = 2
  /\ ChatTextTurn /\ TurnAnswered
  /\ ErrorReport(resp[1].body.message)
  /\ req.userId \in DOMAIN contexts
  /\ contexts[req.userId].lastQuery # <<>>
  /\ contexts[req.userId].lastQuery # UserMessage
  /\ contexts[req.userId].lastSql # <<>>

\* the step ends a chat turn with a chat completion
ChatTurnAnswered ==
  /\ pc' = "idle" /\ (pc # "idle" \/ served' # served)
  /\ req'.route = "chat"
  /\ resp' # <<>> /\ resp'[1].status = 200

\* the messageHistory of the user of the turn before the step
HistoryBefore ==
  IF req'.userId \in DOMAIN contexts THEN contexts[req'.userId].messageHistory ELSE <<>>

\* the messages of a turn that are new in it: the last one, and those before
\* it that the history does not hold
NewInTurn(history, messages) ==
  Filter(messages,
         {i \in DOMAIN messages :
            i = Len(messages) \/ ~\E j \in DOMAIN history : history[j] = messages[i]}, 1)

\* C40: a chat turn adds to messageHistory the messages that are new in the
\* turn, once each: a message of the running conversation that the client
\* sends again, and that the history holds, is not stored a second time.
C40_ResentMessagesStoredOnce ==
  [][ChatTurnAnswered =>
       contexts'[req'.userId].messageHistory =
         HistoryBefore \o NewInTurn(HistoryBefore, req'.messages)]_vars

(***************************************************************************)
(* Properties of the context managers, stated of SpecStore.                *)
(***************************************************************************)
\* operation k of the log is an updateContext of user u that carries key
UpdateWith(k, u, key) ==
  /\ k \in DOMAIN oplog
  /\ oplog[k].fn = "updateContext"
  /\ oplog[k].userId = u
  /\ key \in DOMAIN oplog[k].info

\* operation k deleted the context of user u, if there was one
ContextGone(k, u) ==
  \/ oplog[k].fn = "clearContext" /\ oplog[k].userId = u
  \/ oplog[k].fn = "cleanupExpiredContexts" /\ u \in oplog[k].info.deleted

\* operations j and k are the last two of the log
LastTwo(j, k) == Len(oplog) >= 2 /\ {j, k} = {Len(oplog) - 1, Len(oplog)}

\* property key of the context of user u has value v
Holds(u, key, v) ==
  /\ u \in DOMAIN entries
  /\ key \in DOMAIN entries[u]
  /\ entries[u][key] = v

\* C13: when the last two operations on a store are an update of user u
\* supplying lastQuery = X and one supplying sessionEntities.y = 2, in either
\* order, the context of u has lastQuery = X and sessionEntities.y = 2; this
\* for the simple and for the enhanced context manager.
C13_BothUpdatesReflected ==
  \A u \in StoreUsers, j \in DOMAIN oplog, k \in DOMAIN oplog :
    ( /\ LastTwo(j, k)
      /\ UpdateWith(j, u, "lastQuery") /\ oplog[j].info.lastQuery = <<"X">>
      /\ UpdateWith(k, u, "sessionEntities") /\ oplog[k].info.sessionEntities = [y |-> 2] ) =>
      /\ Holds(u, "lastQuery", <<"X">>)
      /\ u \in DOMAIN entries
      /\ "y" \in DOMAIN entries[u].sessionEntities
      /\ entries[u].sessionEntities.y = 2

\* a context without its updatedAt
WithoutUpdatedAt(context) == [key \in DOMAIN context \ {"updatedAt"} |-> context[key]]

\* the step is a getUserContext(u)
GetStep(u) ==
  /\ Len(oplog') = Len(oplog) + 1
  /\ oplog'[Len(oplog')].fn = "getUserContext"
  /\ oplog'[Len(oplog')].userId = u

\* the history a context manager keeps: queryHistory in the simple one,
\* messageHistory in the enhanced one
HistoryKey == IF variant = "simple" THEN "queryHistory" ELSE "messageHistory"

\* C17: getUserContext(u) for a user without context creates one whose
\* sessionEntities and history are empty; for a user with a context it
\* changes no property of the context but updatedAt and returns the context,
\* so a get that follows a get returns the same sessionEntities and history.
C17_GetIdempotent ==
  [][\A u \in StoreUsers :
       GetStep(u) =>
         /\ returned' = <<entries'[u]>>
         /\ IF u \in DOMAIN entries
            THEN WithoutUpdatedAt(entries'[u]) = WithoutUpdatedAt(entries[u])
            ELSE /\ entries'[u].userId = u
                 /\ entries'[u].sessionEntities = <<>>
                 /\ entries'[u][HistoryKey] = <<>>
                 /\ entries'[u].createdAt = entries'[u].updatedAt
         /\ ( /\ oplog # <<>>
              /\ oplog[Len(oplog)].fn = "getUserContext"
              /\ oplog[Len(oplog)].userId = u ) =>
              /\ returned'[1].sessionEntities = returned[1].sessionEntities
              /\ returned'[1][HistoryKey] = returned[1][HistoryKey]]_vars

\* two gets in a row of a context that holds session entities: the second
\* returned them again, with a later updatedAt
C17_SecondGetReturnsSame ==
  \E u \in StoreUsers :
    /\ Len(oplog) >= 3
    /\ oplog[Len(oplog)].fn = "getUserContext" /\ oplog[Len(oplog)].userId = u
    /\ oplog[Len(oplog) - 1].fn = "getUserContext" /\ oplog[Len(oplog) - 1].userId = u
    /\ returned # <<>>
    /\ returned[1].sessionEntities # <<>>
    /\ returned[1].updatedAt > returned[1].createdAt + 1

\* the context of u holds every key of the map given under property key
\* with that map's value
HoldsKeys(u, key, map) ==
  /\ u \in DOMAIN entries
  /\ key \in DOMAIN entries[u]
  /\ \A name \in DOMAIN map :
       name \in DOMAIN entries[u][key] /\ entries[u][key][name] = map[name]

\* C18: when the last two operations are updates of user u that both carry
\* sessionEntities (or both toolState), the context has every key of the
\* second with its value, and every key only the first one names with the
\* first's value; this for the simple and for the enhanced context manager.
C18_EntitiesMergedKeyWise ==
  \A u \in StoreUsers, key \in {"sessionEntities", "toolState"} :
    ( /\ Len(oplog) >= 2
      /\ UpdateWith(Len(oplog) - 1, u, key)
      /\ UpdateWith(Len(oplog), u, key) ) =>
      /\ HoldsKeys(u, key, oplog[Len(oplog)].info[key])
      /\ HoldsKeys(u, key, [name \in DOMAIN oplog[Len(oplog) - 1].info[key]
                                      \ DOMAIN oplog[Len(oplog)].info[key] |->
                              oplog[Len(oplog) - 1].info[key][name]])

\* the messages handed to updateContext for user u in operations 1..k since
\* the context was last cleared, oldest first
RECURSIVE MessagesSent(_, _)
MessagesSent(u, k) ==
  IF k = 0 THEN <<>>
  ELSE IF ContextGone(k, u) THEN <<>>
  ELSE IF UpdateWith(k, u, "messageHistory")
  THEN MessagesSent(u, k - 1) \o oplog[k].info.messageHistory
  ELSE MessagesSent(u, k - 1)

\* the last n elements of a sequence
LastOf(array, n) ==
  SubSeq(array, IF Len(array) > n THEN Len(array) - n + 1 ELSE 1, Len(array))

\* C19: in the enhanced context manager, after any operations, a context's
\* messageHistory has at most maxMessageHistory messages, and they are the
\* most recent of the messages handed to updateContext, in the order handed.
C19_HistoryIsSlidingWindow ==
  variant = "enhanced" =>
    \A u \in DOMAIN entries :
      /\ Len(entries[u].messageHistory) <= maxMessageHistory
      /\ entries[u].messageHistory = LastOf(MessagesSent(u, Len(oplog)), maxMessageHistory)

\* a messageHistory at its cap from which the oldest messages have gone
C19_OldestEvicted ==
  /\ variant = "enhanced"
  /\ \E u \in DOMAIN entries :
       /\ Len(entries[u].messageHistory) = maxMessageHistory
       /\ Len(MessagesSent(u, Len(oplog))) > maxMessageHistory
       /\ entries[u].messageHistory[1] # MessagesSent(u, Len(oplog))[1]

\* the entries of the updates of user u that carried a lastQuery in
\* operations 1..k since the context was last cleared, most recent first
RECURSIVE QueriesCarried(_, _)
QueriesCarried(u, k) ==
  IF k = 0 THEN <<>>
  ELSE IF ContextGone(k, u) THEN <<>>
  ELSE IF UpdateWith(k, u, "lastQuery")
  THEN <<[query |-> oplog[k].info.lastQuery,
          sql |-> IF "lastSql" \in DOMAIN oplog[k].info THEN oplog[k].info.lastSql ELSE <<>>,
          timestamp |-> TimeAt(k)]>> \o QueriesCarried(u, k - 1)
  ELSE QueriesCarried(u, k - 1)

\* C20: in the simple context manager, after any updates, queryHistory has
\* at most 5 entries, and they are the latest updates that carried a
\* lastQuery, most recent first: an update without lastQuery leaves it as
\* it was.
C20_QueryHistoryLatestFive ==
  variant = "simple" =>
    \A u \in DOMAIN entries :
      /\ Len(entries[u].queryHistory) <= 5
      /\ entries[u].queryHistory = Take(QueriesCarried(u, Len(oplog)), 5)

\* no update has handed a queryHistory of its own to the store
NoHistoryHandedIn == \A k \in DOMAIN oplog : ~UpdateWith(k, oplog[k].userId, "queryHistory")

\* as long as no update carries a queryHistory property the above holds
QueryHistoryKeptUnlessHandedIn == NoHistoryHandedIn => C20_QueryHistoryLatestFive

\* the step is a clearContext(u)
ClearStep(u) ==
  /\ Len(oplog') = Len(oplog) + 1
  /\ oplog'[Len(oplog')].fn = "clearContext"
  /\ oplog'[Len(oplog')].userId = u

\* the last operation on user u in the log was a clearContext(u)
ClearedLast(u) ==
  \E k \in DOMAIN oplog :
    /\ oplog[k].fn = "clearContext" /\ oplog[k].userId = u
    /\ \A j \in DOMAIN oplog : j > k => oplog[j].userId # u

\* a context as getUserContext creates it: nothing in it but its defaults
EmptyDefaults(context, u, now) ==
  /\ context.userId = u
  /\ context.createdAt = now /\ context.updatedAt = now
  /\ context.sessionEntities = <<>>
  /\ context[HistoryKey] = <<>>
  /\ variant = "enhanced" =>
       context.memoryBlocks = <<>> /\ context.toolState = <<>> /\ context.contextSize = 0
  /\ DOMAIN context \subseteq
       {"userId", "createdAt", "updatedAt", "sessionEntities", "queryHistory",
        "messageHistory", "toolState", "contextSize", "memoryBlocks"}

\* C21: clearContext(u) deletes the context of u and leaves the contexts of
\* the other users as they are, and nothing changes when u has no context;
\* the getUserContext(u) that follows a clearContext(u) returns a context
\* created anew, with empty defaults and none of what was stored before.
C21_ClearThenGetIsFresh ==
  [][\A u \in StoreUsers :
       /\ ClearStep(u) =>
            /\ u \notin DOMAIN entries'
            /\ DOMAIN entries' = DOMAIN entries \ {u}
            /\ \A other \in DOMAIN entries' : entries'[other] = entries[other]
            /\ u \notin DOMAIN entries => entries' = entries
       /\ (GetStep(u) /\ ClearedLast(u)) =>
            /\ returned' = <<entries'[u]>>
            /\ EmptyDefaults(returned'[1], u, Now)]_vars

\* a context that held session entities was cleared, and the get that
\* followed returned one without any
C21_FreshAfterClear ==
  /\ Len(oplog) = 3
  /\ UpdateWith(1, "u1", "sessionEntities")
  /\ oplog[2].fn = "clearContext" /\ oplog[2].userId = "u1"
  /\ oplog[3].fn = "getUserContext" /\ oplog[3].userId = "u1"
  /\ returned # <<>>
  /\ returned[1].sessionEntities = <<>>

\* the step is a cleanupExpiredContexts() at time now
SweepStep(now) ==
  /\ Len(oplog') = Len(oplog) + 1
  /\ oplog'[Len(oplog')].fn = "cleanupExpiredContexts"
  /\ now = Now + oplog'[Len(oplog')].info.after

\* C22: cleanupExpiredContexts deletes the contexts for which now -
\* updatedAt is strictly greater than the expiration time, those only, and
\* leaves every other context as it is, in the simple and in the enhanced
\* context manager.
C22_SweepDeletesExpiredOnly ==
  [][\A now \in {Now + after : after \in Waits} :
       SweepStep(now) =>
         /\ DOMAIN entries' =
              {u \in DOMAIN entries : ~(now - entries[u].updatedAt > expirationTime)}
         /\ \A u \in DOMAIN entries' : entries'[u] = entries[u]]_vars

\* a sweep found a context older than the expiration time and one exactly as
\* old: it deleted the first and kept the second
C22_SweptAtTheBoundary ==
  /\ Len(oplog) = 3
  /\ oplog[3].fn = "cleanupExpiredContexts"
  /\ oplog[3].info.deleted = {"u1"}
  /\ "u2" \in DOMAIN entries
  /\ TimeAt(3) - entries["u2"].updatedAt = expirationTime

\* the step is an updateContext of user u
UpdateStep(u) ==
  /\ Len(oplog') = Len(oplog) + 1
  /\ oplog'[Len(oplog')].fn = "updateContext"
  /\ oplog'[Len(oplog')].userId = u

\* the context stored for u is the context of u, not updated before created
IdentityKept ==
  \A u \in DOMAIN entries :
    entries[u].userId = u /\ entries[u].updatedAt >= entries[u].createdAt

\* C23: after any get, update, clear and sweep operations the context stored
\* under key u has userId = u and an updatedAt not earlier than its
\* createdAt, and no updateContext, whatever partial it is given, changes
\* the userId or the createdAt of a context there was; this in the simple and
\* in the enhanced context manager.
C23_IdentityImmutable ==
  [][/\ IdentityKept'
     /\ \A u \in DOMAIN entries :
          UpdateStep(u) =>
            /\ entries'[u].userId = entries[u].userId
            /\ entries'[u].createdAt = entries[u].createdAt]_vars

\* in the enhanced context manager the above holds
IdentityImmutableInEnhanced ==
  [][variant = "enhanced" =>
       /\ IdentityKept'
       /\ \A u \in DOMAIN entries :
            UpdateStep(u) =>
              /\ entries'[u].userId = entries[u].userId
              /\ entries'[u].createdAt = entries[u].createdAt]_vars

\* at the time now the context of u has been without activity for longer
\* than the expiration time
Stale(u, now) == u \in DOMAIN entries /\ now - entries[u].updatedAt > expirationTime

\* the step is a sweep that follows a getUserContext(u) within the interval
\* of the timer
SweepStepAfterGet(u) ==
  /\ oplog # <<>>
  /\ oplog[Len(oplog)].fn = "getUserContext" /\ oplog[Len(oplog)].userId = u
  /\ Len(oplog') = Len(oplog) + 1
  /\ oplog'[Len(oplog')].fn = "cleanupExpiredContexts"
  /\ oplog'[Len(oplog')].info.after <= cleanupInterval

\* C35: a call never deletes or resets a context for its age:
\* getUserContext(u) on a context older than the expiration time, which no
\* sweep has removed yet, returns the context as it is but for an updatedAt
\* of now, and the next sweep does not remove that context; and no step but
\* a sweep or a clearContext removes a context.
C35_AgeActsInTheSweepOnly ==
  [][\A u \in StoreUsers :
       /\ \A now \in {Now + after : after \in Arrivals} :
            (GetStep(u) /\ now = Now + oplog'[Len(oplog')].info.after /\ Stale(u, now)) =>
              /\ entries'[u] = [entries[u] EXCEPT !.updatedAt = now]
              /\ returned' = <<entries'[u]>>
       /\ SweepStepAfterGet(u) => (u \in DOMAIN entries' /\ entries'[u] = entries[u])
       /\ (u \in DOMAIN entries /\ u \notin DOMAIN entries') =>
            oplog'[Len(oplog')].fn \in {"cleanupExpiredContexts", "clearContext"}]_vars

\* a context with session entities was left alone for more than the
\* expiration time, then got, then met by a sweep: it is there, as created
C35_StaleContextRevived ==
  /\ Len(oplog) = 3
  /\ oplog[1].fn = "updateContext" /\ oplog[1].userId = "u1"
  /\ "sessionEntities" \in DOMAIN oplog[1].info
  /\ oplog[2].fn = "getUserContext" /\ oplog[2].userId = "u1"
  /\ oplog[2].info.after = IdleTime
  /\ oplog[3].fn = "cleanupExpiredContexts" /\ oplog[3].info.after = cleanupInterval
  /\ "u1" \in DOMAIN entries
  /\ entries["u1"].createdAt = TimeAt(1)
  /\ entries["u1"].updatedAt = TimeAt(2)
  /\ entries["u1"].updatedAt - entries["u1"].createdAt > expirationTime
  /\ entries["u1"].sessionEntities # <<>>

\* the blocks `before` are the first of the blocks `after`, in their order
GrownFrom(after, before) ==
  /\ Len(before) <= Len(after)
  /\ \A k \in DOMAIN before : after[k] = before[k]

\* the last min(n, Len(blocks)) of the blocks, in their order
NewestOf(blocks, n) ==
  LET kept == IF Len(blocks) < n THEN Len(blocks) ELSE n
  IN [k \in 1..kept |-> blocks[Len(blocks) - kept + k]]

\* the step is a generateModelContext(u)
GenerateStep(u) ==
  /\ Len(oplog') = Len(oplog) + 1
  /\ oplog'[Len(oplog')].fn = "generateModelContext"
  /\ oplog'[Len(oplog')].userId = u

\* C36: in the enhanced context manager the memoryBlocks of a context only
\* grow at the end: a step that keeps the context keeps the blocks it had, in
\* their places; only clearContext and the sweep remove them, with the
\* context; and generateModelContext returns the last min(5, n) of the n
\* blocks in their stored order.
C36_MemoryBlocksAppendOnly ==
  [][variant = "enhanced" =>
       \A u \in DOMAIN entries :
         /\ u \in DOMAIN entries' =>
              GrownFrom(entries'[u].memoryBlocks, entries[u].memoryBlocks)
         /\ u \notin DOMAIN entries' =>
              oplog'[Len(oplog')].fn \in {"cleanupExpiredContexts", "clearContext"}
         /\ GenerateStep(u) =>
              returned'[1].relevantMemory = NewestOf(entries[u].memoryBlocks, 5)]_vars

\* seven blocks were stored, by an update and by addMemoryBlock, and
\* generateModelContext returned five of them
C36_FiveOfSevenReturned ==
  /\ Len(oplog) = 3
  /\ oplog[2].fn = "addMemoryBlock" /\ oplog[2].userId = "u1"
  /\ oplog[3].fn = "generateModelContext" /\ oplog[3].userId = "u1"
  /\ Len(entries["u1"].memoryBlocks) = 7
  /\ returned # <<>>
  /\ Len(returned[1].relevantMemory) = 5
  /\ returned[1].relevantMemory[1] = <<"m","3">>

(***************************************************************************)
(* Properties of validateNaturalLanguageInput, stated of SpecFilter.       *)
(***************************************************************************)
\* validateNaturalLanguageInput has been applied to the subject
InputValidated == subject.fn = "validateNaturalLanguageInput" /\ verdict # <<>>

\* the verdict blocks with the severity given
BlocksWith(severity) ==
  /\ ~verdict[1].isValid
  /\ "severity" \in DOMAIN verdict[1]
  /\ verdict[1].severity = severity

\* C27 as stated: validateNaturalLanguageInput of an empty text returns
\* isValid = false with severity = high.
C27_EmptyInputHigh ==
  (InputValidated /\ subject.query = <<>>) => BlocksWith("high")

\* C27 as amended: validateNaturalLanguageInput of an empty text returns
\* isValid = false with severity = low.
C27_EmptyInputLow ==
  (InputValidated /\ subject.query = <<>>) => BlocksWith("low")

\* the empty text has been validated
C27_EmptyInputValidated == InputValidated /\ subject.query = <<>>

\* the verdict is that of the multiple-statement rule
BlockedAsMultiple ==
  /\ ~verdict[1].isValid
  /\ verdict[1].reason = <<"Multiple SQL statements are not allowed">>

\* the input has a semicolon that is not its last character
HasInnerSemicolon(input) == \E k \in 1..(Len(input) - 1) : input[k] = ";"

\* C28: on an input that reaches it, the multiple-statement rule of
\* validateNaturalLanguageInput blocks exactly when the input has a
\* semicolon that is not its last character and does not contain the benign
\* shape of two words and a semicolon; an input whose only semicolon is its
\* last character is not blocked by the rule.
C28_InnerSemicolonBlocks ==
  (InputValidated /\ subject.query # <<>> /\ InjectionHits(subject.query) = {}) =>
    (BlockedAsMultiple <=>
       (HasInnerSemicolon(subject.query) /\ ~Test(BenignSemicolonShape, subject.query, FALSE)))

\* the dangerous operations that occur as whole words in the input, in any
\* case
OperationsNamed(input) ==
  {k \in DOMAIN DANGEROUS_OPERATIONS : Test(WholeWord(DANGEROUS_OPERATIONS[k].w), input, TRUE)}

\* the input contains one of the negated phrases
HasNegatedPhrase(input) ==
  includes(input, <<"d","i","d","n","'","t"," ","d","e","l","e","t","e">>) \/ includes(input, <<"n","o","t"," ","d","e","l","e","t","e">>) \/ includes(input, <<"n","e","v","e","r"," ","d","e","l","e","t","e">>)

C29_OtherOperationStillBlocks ==
  /\ InputValidated
  /\ subject.query = <<"n","e","v","e","r"," ","d","e","l","e","t","e"," ","o","r"," ","u","p","d","a","t","e"," ","r","o","w","s">>
  /\ BlocksWith("high")
  /\ verdict[1].reason = <<"Query contains dangerous operation:", "UPDATE">>

\* isValid and severity of a verdict
Outcome(v) == <<v.isValid, IF "severity" \in DOMAIN v THEN v.severity ELSE "none">>

\* C30: the verdict of validateNaturalLanguageInput, isValid and severity,
\* is the same for an input and for the input in lower case and in upper
\* case.
C30_VerdictIgnoresCase ==
  (InputValidated /\ subject.query # <<>>) =>
    /\ Outcome(verdict[1]) = Outcome(validateNaturalLanguageInput(toLowerCase(subject.query)))
    /\ Outcome(verdict[1]) = Outcome(validateNaturalLanguageInput(toUpperCase(subject.query)))

\* the input passes the injection, semicolon and dangerous-operation checks
PassesEarlierChecks(input) ==
  /\ input # <<>>
  /\ InjectionHits(input) = {}
  /\ ~(includes(input, <<";">>) /\ ~Test(BenignSemicolonShape, input, FALSE))
  /\ DangerousHits(input) = {}

\* the sensitive keywords the input contains, in any case
KeywordsIn(input) ==
  {k \in DOMAIN SENSITIVE_KEYWORDS : includes(toLowerCase(input), SENSITIVE_KEYWORDS[k].w)}

\* the input has one of the legitimate phrasings
LegitimatePhrasing(input) ==
  \E k \in DOMAIN InputLegitimatePatterns : Test(InputLegitimatePatterns[k], input, TRUE)

\* C31: for an input that passes the injection, semicolon and
\* dangerous-operation checks: without sensitive keyword the verdict is
\* isValid = true; with one keyword and a legitimate phrasing it is isValid =
\* true with a warning and severity = low; otherwise the input is blocked,
\* with severity = medium for one keyword and high for more than one.
C31_SensitiveKeywordVerdicts ==
  (InputValidated /\ PassesEarlierChecks(subject.query)) =>
    LET n == Cardinality(KeywordsIn(subject.query)) IN
    IF n = 0 THEN verdict[1] = [isValid |-> TRUE]
    ELSE IF n = 1 /\ LegitimatePhrasing(subject.query)
    THEN /\ verdict[1].isValid
         /\ "warning" \in DOMAIN verdict[1]
         /\ verdict[1].severity = "low"
    ELSE BlocksWith(IF n = 1 THEN "medium" ELSE "high")

\* a question with the one keyword password, in mixed case, in a legitimate
\* phrasing passed with a warning
C31_LegitimatePhrasingPassed ==
  /\ InputValidated
  /\ subject.query = <<"L","i","s","t"," ","t","h","e"," ","P","a","s","s","w","o","r","d"," ","h","i","n","t","s">>
  /\ verdict[1].isValid
  /\ "warning" \in DOMAIN verdict[1]

SqlValidated == subject.fn = "validateSql" /\ verdict # <<>>

\* the SQL holds the word, in any case, as a whole word
HasWord(sql, word) == Test(WholeWord(word), sql, TRUE)

ForbiddenWords == {<<"d","r","o","p">>, <<"t","r","u","n","c","a","t","e">>, <<"a","l","t","e","r">>, <<"g","r","a","n","t">>, <<"r","e","v","o","k","e">>, <<"e","x","e","c">>, <<"e","x","e","c","u","t","e">>}
ModificationWords == {<<"u","p","d","a","t","e">>, <<"i","n","s","e","r","t">>, <<"d","e","l","e","t","e">>}
DangerousWords == {DANGEROUS_OPERATIONS[k].w : k \in DOMAIN DANGEROUS_OPERATIONS}

\* C32: SQL with a whole-word DROP, TRUNCATE, ALTER, GRANT, REVOKE, EXEC or
\* EXECUTE is rejected with severity = high and without isDataModification,
\* whatever else it contains; SQL whose only dangerous words are UPDATE,
\* INSERT or DELETE is rejected with severity = medium and
\* isDataModification = true.
C32_ForbiddenWordsRankHigh ==
  SqlValidated =>
    LET found == {w \in DangerousWords : HasWord(subject.sql, w)} IN
    /\ found \cap ForbiddenWords # {} =>
         /\ ~verdict[1].isValid
         /\ verdict[1].severity = "high"
         /\ "isDataModification" \notin DOMAIN verdict[1]
    /\ (found # {} /\ found \subseteq ModificationWords) =>
         /\ ~verdict[1].isValid
         /\ verdict[1].severity = "medium"
         /\ "isDataModification" \in DOMAIN verdict[1]
         /\ verdict[1].isDataModification

\* positions of the semicolons of the text
SemicolonsOf(text) == {k \in DOMAIN text : text[k] = ";"}

\* the text after position k is white space, or nothing
OnlySpaceAfter(text, k) == \A j \in DOMAIN text : j > k => text[j] \in SpaceChars

BlockedAsStacked ==
  /\ ~verdict[1].isValid
  /\ verdict[1].reason = <<"Multiple SQL statements are not allowed">>

\* C33: SQL with a semicolon followed by anything other than trailing white
\* space is rejected, and a statement is not rejected for a lone semicolon
\* at its very end.
C33_StackedStatementsRejected ==
  SqlValidated =>
    /\ (\E k \in SemicolonsOf(subject.sql) : ~OnlySpaceAfter(subject.sql, k)) =>
         ~verdict[1].isValid
    /\ SemicolonsOf(subject.sql) = {Len(subject.sql)} =>
         ~BlockedAsStacked

\* C34: a UNION SELECT or UNION ALL SELECT statement whose two sides list
\* the same number of comma-separated expressions, and in which nothing else
\* is wrong, is not rejected.
C34_EvenUnionAccepted ==
  ( /\ SqlValidated
    /\ Test(UnionSelect, subject.sql, TRUE)
    /\ ExpressionCount(LeftSide(subject.sql)) > 0
    /\ ExpressionCount(LeftSide(subject.sql)) = ExpressionCount(RightSide(subject.sql))
    /\ \A w \in DangerousWords : ~HasWord(subject.sql, w)
    /\ SemicolonsOf(subject.sql) = {} ) =>
    verdict[1].isValid

(***************************************************************************)
(* Properties of the Redis-backed context manager, stated of SpecRedis.    *)
(***************************************************************************)
\* call c is inside its read-modify-write: the lock was granted to it and
\* its context is not yet stored
InsideUpdate(c) == updates[c].at \in {"locked", "read", "got"}

HoldsLock(c) ==
  updates[c].userId \in DOMAIN locks /\ locks[updates[c].userId] = c

\* C14: in the Redis-backed store no two updateContext calls for the same
\* userId are inside their read-modify-write at once, and a call that is
\* inside holds the lock of its user, from before its read until its write
\* is done.
C14_UpdatesExcludedPerUser ==
  /\ \A c \in RedisCalls, d \in RedisCalls :
       (c # d /\ updates[c].userId = updates[d].userId) => ~(InsideUpdate(c) /\ InsideUpdate(d))
  /\ \A c \in RedisCalls : InsideUpdate(c) => HoldsLock(c)

\* as long as no lock has run out of its time to live the above holds
ExcludedWhileLocksLast == oplog = <<>> => C14_UpdatesExcludedPerUser

\* updates of different users are inside their read-modify-write together
DifferentUsersTogether ==
  \E c \in RedisCalls, d \in RedisCalls :
    updates[c].userId # updates[d].userId /\ InsideUpdate(c) /\ InsideUpdate(d)

\* the step is the rejection of call c: the lock was not granted
RefusedStep(c) == updates[c].at = "locking" /\ updates'[c].at = "failed"

\* C26: in the Redis-backed store, when the lock of the user is not granted
\* updateContext rejects: the call has read and written nothing, holds no
\* lock, and the stored contexts are as they were, so that the call can be
\* made again.
C26_RefusedUpdateLeavesStore ==
  [][\A c \in RedisCalls :
       RefusedStep(c) =>
         /\ entries' = entries
         /\ updates'[c].context = <<>>
         /\ updates'[c].rejected
         /\ c \notin {locks'[u] : u \in DOMAIN locks'}]_vars

\* an update that was rejected was made again, and its lastQuery is stored
C26_RetrySucceeded ==
  /\ updates[1].rejected
  /\ updates[1].at = "done"
  /\ "u1" \in DOMAIN entries
  /\ "lastQuery" \in DOMAIN entries["u1"]
  /\ entries["u1"].lastQuery = <<"X">>

(***************************************************************************)
(* Properties of the calls of the Redis-backed context manager side by     *)
(* side, stated of SpecRedisCalls and FairSpecRedisCalls.                  *)
(***************************************************************************)
\* the updateContext and the getUserContext of the user have both returned,
\* no sweep was started and no lock has run out of its time to live
UpdateAndGetReturned ==
  /\ updates[1].fn = "updateContext" /\ updates[1].at = "done"
  /\ updates[2].fn = "getUserContext" /\ updates[2].at = "done"
  /\ updates[3].at = "idle"
  /\ \A k \in DOMAIN oplog : oplog[k].fn # "expire"

\* C37: in the Redis-backed store, after a getUserContext and an
\* updateContext of the same user that ran side by side have both returned,
\* the stored context holds what the update wrote.
C37_UpdateSurvivesConcurrentGet ==
  UpdateAndGetReturned =>
    /\ "u1" \in DOMAIN entries
    /\ "lastQuery" \in DOMAIN entries["u1"]
    /\ entries["u1"].lastQuery = updates[1].info.lastQuery
    /\ Len(entries["u1"].queryHistory) = 1

\* the step is the redis.del of the sweep c, on a key that is there
DeleteStep(c) ==
  /\ updates[c].at = "deleting" /\ updates'[c].at # "deleting"
  /\ entries' # entries

\* C38: in the Redis-backed store cleanupExpiredContexts deletes no context
\* whose updatedAt, at the time of the delete, is within the expiration
\* time, whatever get or update of the user came between the sweep's read
\* of the context and its delete.
C38_SweepDeletesStaleOnly ==
  [][\A c \in RedisCalls :
       DeleteStep(c) =>
         RedisNow[2] - entries[Head(updates[c].info.keys)].updatedAt[2] > expirationTime]_vars

\* C39: in the Redis-backed store a lock granted to an updateContext is
\* released in the end, when the call stores its context and when redis.get
\* or redis.set fails in it: no call holds the lock of its user for ever.
C39_LockReleasedInTheEnd ==
  \A c \in RedisCalls : HoldsLock(c) ~> ~HoldsLock(c)

\* an updateContext was granted the lock, a command of Redis failed in it
\* and it rejected; the lock, which did not run out, is not held
C39_ReleasedAfterFailure ==
  /\ updates[1].at = "rejected"
  /\ "u1" \notin DOMAIN locks
  /\ oplog = <<>>
  /\ updates[2].at = "idle"

(***************************************************************************)
(* Properties of the tool registry, stated of SpecRegistry.                *)
(***************************************************************************)
\* the step is a call of fn
CallStep(fn) == returned' # <<>> /\ returned'[1].fn = fn

\* C24: registerTool with a name that is registered throws an error and
\* leaves the registry, the tool registered under the name included, as it
\* is; and a step that changes the registry is a registerTool that returned,
\* of a name not registered before, which adds one tool.
C24_DuplicateRegistrationFails ==
  [][/\ (CallStep("registerTool") /\ Has(entries, returned'[1].args[1])) =>
          /\ returned'[1].threw
          /\ returned'[1].value = AlreadyExists(returned'[1].args[1])
          /\ entries' = entries
     /\ entries' # entries =>
          /\ returned'[1].fn = "registerTool"
          /\ ~returned'[1].threw
          /\ ~Has(entries, returned'[1].args[1])
          /\ Len(entries') = Len(entries) + 1
          /\ SubSeq(entries', 1, Len(entries)) = entries
          /\ entries'[Len(entries')].name = returned'[1].args[1]]_vars

\* a second registerTool of a name, with another handler, threw and the
\* tool has the handler of the first
C24_SecondRegistrationRefused ==
  /\ returned # <<>>
  /\ returned[1].fn = "registerTool"
  /\ returned[1].threw
  /\ "execute" \in DOMAIN returned[1].args[2]
  /\ Has(entries, returned[1].args[1])
  /\ Get(entries, returned[1].args[1]).execute \notin {"undefined", returned[1].args[2].execute}

\* the last call was executeTool of a tool that has a handler
HandlerExecuted ==
  /\ returned # <<>>
  /\ returned[1].fn = "executeTool"
  /\ Has(entries, returned[1].args[1])
  /\ Get(entries, returned[1].args[1]).execute # "undefined"

\* C25: executeTool of a name that is not registered throws the not-found
\* error and invokes no handler; executeTool of a registered tool invokes
\* the handler of that tool once, with the params given, and returns what
\* the handler returned or throws what it threw (a tool registered without
\* a handler has none to invoke: the call throws).
C25_ExecuteInvokesHandlerOnce ==
  (returned # <<>> /\ returned[1].fn = "executeTool") =>
    IF ~Has(entries, returned[1].args[1])
    THEN /\ returned[1].threw
         /\ returned[1].value = ToolNotFound(returned[1].args[1])
         /\ returned[1].invoked = <<>>
    ELSE IF ~HandlerExecuted
    THEN returned[1].threw /\ returned[1].invoked = <<>>
    ELSE /\ Len(returned[1].invoked) = 1
         /\ returned[1].invoked[1].handler = Get(entries, returned[1].args[1]).execute
         /\ returned[1].invoked[1].params = returned[1].args[2]
         /\ returned[1].threw = ~returned[1].invoked[1].outcome.ok
         /\ returned[1].value = returned[1].invoked[1].outcome.value

\* a handler was invoked and rejected: executeTool threw its error
C25_HandlerFailurePropagated ==
  /\ HandlerExecuted
  /\ returned[1].threw
  /\ returned[1].value = <<"b","o","o","m">>
====

